---------------------------- MODULE Spec2Model ----------------------------
(***************************************************************************)
(* A model of DataDog/go-sql-lexer: the lexer (src/sqllexer.go) and the    *)
(* two normalizer implementations kept in the repository, the one that     *)
(* deduplicates metadata when Normalize returns (src/normalizer.go,        *)
(* variant "plain") and the one that takes its metadata buffer from a      *)
(* sync.Pool and deduplicates on insertion (src/unnamed/part_000, variant  *)
(* "pooled").                                                              *)
(*                                                                         *)
(* Text is a sequence of one-character strings; a rune is one such string. *)
(* The rune 0, which lookAhead returns past the end of the input and which *)
(* isEOF tests, is written NUL.  Inputs are ASCII, so a rune is a byte and *)
(* utf8.RuneLen is 1.  Offsets are 0-based as in the Go code: the rune at  *)
(* offset c of src is src[c + 1].                                          *)
(***************************************************************************)
EXTENDS Integers, Sequences, FiniteSets, TLC

NUL == "NUL"

\* the vertical tab, rune 0x0B (a string holding one does not parse)
VT == "VT"

\* the backtick rune (a string holding a backtick does not parse)
BACKTICK == "BACKTICK"

Min(a, b) == IF a < b THEN a ELSE b

-----------------------------------------------------------------------------
(* Text helpers: Go's strings package on sequences of runes.               *)

LowerLetters ==
    <<"a","b","c","d","e","f","g","h","i","j","k","l","m",
      "n","o","p","q","r","s","t","u","v","w","x","y","z">>

UpperLetters ==
    <<"A","B","C","D","E","F","G","H","I","J","K","L","M",
      "N","O","P","Q","R","S","T","U","V","W","X","Y","Z">>

LowerSet == {LowerLetters[i] : i \in 1..26}

UpperSet == {UpperLetters[i] : i \in 1..26}

DigitSet == {"0","1","2","3","4","5","6","7","8","9"}

UpperRune(ch) ==
    IF ch \in LowerSet
    THEN UpperLetters[CHOOSE i \in 1..26 : LowerLetters[i] = ch]
    ELSE ch

\* strings.ToUpper
ToUpper(s) == [i \in 1..Len(s) |-> UpperRune(s[i])]

\* s[from:to] of Go, 0-based and half-open
Slice(s, from, to) == [i \in 1..(to - from) |-> s[from + i]]

\* the white space strings.TrimSpace removes: unicode.IsSpace, of ASCII
\* the runes \t \n \v \f \r and the space
TrimSpaceSet == {" ", "\t", "\n", VT, "\f", "\r"}

RECURSIVE TrimLeft(_)
TrimLeft(s) ==
    IF Len(s) > 0 /\ s[1] \in TrimSpaceSet THEN TrimLeft(Tail(s)) ELSE s

RECURSIVE TrimRight(_)
TrimRight(s) ==
    IF Len(s) > 0 /\ s[Len(s)] \in TrimSpaceSet
    THEN TrimRight(SubSeq(s, 1, Len(s) - 1))
    ELSE s

\* strings.TrimSpace
TrimSpace(s) == TrimRight(TrimLeft(s))

\* strings.TrimSuffix(s, ";")
TrimSuffixSemicolon(s) ==
    IF Len(s) > 0 /\ s[Len(s)] = ";" THEN SubSeq(s, 1, Len(s) - 1) ELSE s

RECURSIVE Concat(_)
Concat(ss) == IF ss = <<>> THEN <<>> ELSE Head(ss) \o Concat(Tail(ss))

RECURSIVE SumLen(_)
SumLen(ss) == IF ss = <<>> THEN 0 ELSE Len(Head(ss)) + SumLen(Tail(ss))

Range(s) == {s[i] : i \in 1..Len(s)}

NoDuplicates(s) == \A i, j \in 1..Len(s) : s[i] = s[j] => i = j

-----------------------------------------------------------------------------
(* Token kinds, sqllexer.go:9-38.                                          *)

ERROR == "ERROR"
EOF == "EOF"
WS == "WS"
\* STRING and BOOLEAN are TLA+ words: the kinds are written STRING_T, BOOLEAN_T
STRING_T == "STRING"
INCOMPLETE_STRING == "INCOMPLETE_STRING"
NUMBER == "NUMBER"
IDENT == "IDENT"
QUOTED_IDENT == "QUOTED_IDENT"
OPERATOR == "OPERATOR"
WILDCARD == "WILDCARD"
COMMENT == "COMMENT"
MULTILINE_COMMENT == "MULTILINE_COMMENT"
PUNCTUATION == "PUNCTUATION"
DOLLAR_QUOTED_FUNCTION == "DOLLAR_QUOTED_FUNCTION"
DOLLAR_QUOTED_STRING == "DOLLAR_QUOTED_STRING"
POSITIONAL_PARAMETER == "POSITIONAL_PARAMETER"
BIND_PARAMETER == "BIND_PARAMETER"
FUNCTION == "FUNCTION"
SYSTEM_VARIABLE == "SYSTEM_VARIABLE"
UNKNOWN == "UNKNOWN"
COMMAND == "COMMAND"
KEYWORD == "KEYWORD"
JSON_OP == "JSON_OP"
BOOLEAN_T == "BOOLEAN"
NULL == "NULL"
PROC_INDICATOR == "PROC_INDICATOR"
CTE_INDICATOR == "CTE_INDICATOR"
ALIAS_INDICATOR == "ALIAS_INDICATOR"

\* DBMS dialects (canonical values of the dialect option)
DBMSGeneric == "generic"
DBMSPostgres == "postgresql"
DBMSMySQL == "mysql"
DBMSSQLServer == "mssql"
DBMSOracle == "oracle"
DBMSSnowflake == "snowflake"

-----------------------------------------------------------------------------
(* Character classifier.  The predicates are called by sqllexer.go but     *)
(* defined in a file that is not part of src/; they follow section 4.1 of  *)
(* the specification and the way Lexer.Scan uses them.                     *)

isWhitespace(ch) == ch \in {" ", "\t", "\n", "\r"}

isDigit(ch) == ch \in DigitSet

isExpontent(ch) == ch \in {"e", "E"}

isLeadingSign(ch) == ch \in {"+", "-"}

isAsciiLetter(ch) == ch \in LowerSet \cup UpperSet

isLetter(ch) == isAsciiLetter(ch) \/ ch = "_"

isAlphaNumeric(ch) == isLetter(ch) \/ isDigit(ch)

isDoubleQuote(ch) == ch = "\""

isSingleQuote(ch) == ch = "'"

isOperator(ch) ==
    ch \in {"+", "-", "*", "/", "=", "<", ">", "!", "&", "|", "^", "%", "~",
            "?", "@", ":", "#"}

isWildcard(ch) == ch = "*"

isSingleLineComment(ch, nextCh) == ch = "-" /\ nextCh = "-"

isMultiLineComment(ch, nextCh) == ch = "/" /\ nextCh = "*"

isPunctuation(ch) ==
    ch \in {"(", ")", ",", ";", ".", ":", "[", "]", "{", "}"}

isEOF(ch) == ch = NUL

isIdentifier(ch) ==
    ch \in {"\"", ".", "?", "$", "#", "/", "@", "!"} \/ isLetter(ch) \/ isDigit(ch)

-----------------------------------------------------------------------------
(* Keyword trie.  A trie node is the upper-case prefix that leads to it;   *)
(* the root is <<>>.  The keyword list is not part of src/: the kinds and  *)
(* table-indicator flags are those of sections 2 and 4.2 of the            *)
(* specification: AS is ALIAS_INDICATOR, WITH is a KEYWORD, and no node    *)
(* carries CTE_INDICATOR (sections 4.2 and 9).  A token's kind only ever   *)
(* comes from the trie node (sqllexer.go:400).                             *)

Kw(w, t, ti) == [word |-> w, tokenType |-> t, isTableIndicator |-> ti]

keywords ==
    { Kw(<<"S","E","L","E","C","T">>, COMMAND, FALSE),
      Kw(<<"I","N","S","E","R","T">>, COMMAND, FALSE),
      Kw(<<"U","P","D","A","T","E">>, COMMAND, TRUE),
      Kw(<<"D","E","L","E","T","E">>, COMMAND, FALSE),
      Kw(<<"C","R","E","A","T","E">>, COMMAND, FALSE),
      Kw(<<"A","L","T","E","R">>, COMMAND, FALSE),
      Kw(<<"D","R","O","P">>, COMMAND, FALSE),
      Kw(<<"G","R","A","N","T">>, COMMAND, FALSE),
      Kw(<<"R","E","V","O","K","E">>, COMMAND, FALSE),
      Kw(<<"B","E","G","I","N">>, COMMAND, FALSE),
      Kw(<<"C","O","M","M","I","T">>, COMMAND, FALSE),
      Kw(<<"J","O","I","N">>, COMMAND, TRUE),
      Kw(<<"T","R","U","N","C","A","T","E">>, COMMAND, FALSE),
      Kw(<<"F","R","O","M">>, KEYWORD, TRUE),
      Kw(<<"I","N","T","O">>, KEYWORD, TRUE),
      Kw(<<"T","A","B","L","E">>, KEYWORD, TRUE),
      Kw(<<"W","H","E","R","E">>, KEYWORD, FALSE),
      Kw(<<"A","N","D">>, KEYWORD, FALSE),
      Kw(<<"O","R">>, KEYWORD, FALSE),
      Kw(<<"I","N">>, KEYWORD, FALSE),
      Kw(<<"O","N">>, KEYWORD, FALSE),
      Kw(<<"S","E","T">>, KEYWORD, FALSE),
      Kw(<<"L","I","M","I","T">>, KEYWORD, FALSE),
      Kw(<<"L","I","K","E">>, KEYWORD, FALSE),
      Kw(<<"V","A","L","U","E","S">>, KEYWORD, FALSE),
      Kw(<<"A","S">>, ALIAS_INDICATOR, FALSE),
      Kw(<<"W","I","T","H">>, KEYWORD, FALSE),
      Kw(<<"P","R","O","C","E","D","U","R","E">>, PROC_INDICATOR, FALSE),
      Kw(<<"T","R","U","E">>, BOOLEAN_T, FALSE),
      Kw(<<"F","A","L","S","E">>, BOOLEAN_T, FALSE),
      Kw(<<"N","U","L","L">>, NULL, FALSE) }

keywordRoot == <<>>

IsPrefix(p, w) == Len(p) <= Len(w) /\ SubSeq(w, 1, Len(p)) = p

\* node.children[upperCh] exists
HasChild(node, upperCh) ==
    \E k \in keywords : IsPrefix(Append(node, upperCh), k.word)

\* node.isEnd
NodeIsEnd(node) == \E k \in keywords : k.word = node

NodeKeyword(node) == CHOOSE k \in keywords : k.word = node


-----------------------------------------------------------------------------
(* The lexer, src/sqllexer.go.  A scan function takes the input and the    *)
(* cursor and yields what it hands to emit: the kind, the lexer's start    *)
(* and cursor, the table-indicator flag and the recorded quote offsets.    *)

\* utf8.DecodeRuneInString(src[c:]) on ASCII, 0 outside the input
RuneAt(src, c) == IF c >= Len(src) \/ c < 0 THEN NUL ELSE src[c + 1]

lookAhead(src, cursor, n) == RuneAt(src, cursor + n)

peek(src, cursor) == lookAhead(src, cursor, 0)

\* nextBy: the cursor afterwards (unmoved when cursor+n is past the end)
nextByCursor(src, cursor, n) ==
    IF cursor + n > Len(src) THEN cursor ELSE cursor + n

\* nextBy: the rune it returns
nextByRune(src, cursor, n) ==
    IF cursor + n > Len(src) THEN NUL ELSE RuneAt(src, cursor + n)

nextCursor(src, cursor) == nextByCursor(src, cursor, 1)

nextRune(src, cursor) == nextByRune(src, cursor, 1)

matchAt(src, cursor, match) ==
    IF cursor + Len(match) > Len(src)
    THEN FALSE
    ELSE \A i \in 1..Len(match) : src[cursor + i] = match[i]

\* what a scan function leaves for emit
Scanned(t, start, cursor, ti, quotes) ==
    [Type |-> t, start |-> start, cursor |-> cursor,
     isTableIndicator |-> ti, quotes |-> quotes]

RECURSIVE DecimalLoop(_, _)
DecimalLoop(src, c) ==
    LET ch == peek(src, c) IN
    IF isDigit(ch) \/ ch = "." \/ isExpontent(ch)
    THEN IF isExpontent(ch)
         THEN LET c1 == nextCursor(src, c)
                  ch1 == nextRune(src, c)
              IN  DecimalLoop(src, IF isLeadingSign(ch1)
                                   THEN nextCursor(src, c1) ELSE c1)
         ELSE DecimalLoop(src, nextCursor(src, c))
    ELSE c

scanDecimalNumber(src, start, c) ==
    Scanned(NUMBER, start, DecimalLoop(src, c), FALSE, <<>>)

scanNumberWithLeadingSign(src, cursor) ==
    scanDecimalNumber(src, cursor, nextCursor(src, cursor))

RECURSIVE HexLoop(_, _, _)
HexLoop(src, c, ch) ==
    IF isDigit(ch) \/ ch \in {"a","b","c","d","e","f"}
                   \/ ch \in {"A","B","C","D","E","F"}
    THEN HexLoop(src, nextCursor(src, c), nextRune(src, c))
    ELSE c

scanHexNumber(src, cursor) ==
    Scanned(NUMBER, cursor,
            HexLoop(src, nextByCursor(src, cursor, 2), nextByRune(src, cursor, 2)),
            FALSE, <<>>)

RECURSIVE OctalLoop(_, _, _)
OctalLoop(src, c, ch) ==
    IF ch \in {"0","1","2","3","4","5","6","7"}
    THEN OctalLoop(src, nextCursor(src, c), nextRune(src, c))
    ELSE c

scanOctalNumber(src, cursor) ==
    Scanned(NUMBER, cursor,
            OctalLoop(src, nextByCursor(src, cursor, 2), nextByRune(src, cursor, 2)),
            FALSE, <<>>)

scanNumberic(src, cursor, ch) ==
    LET nextCh == lookAhead(src, cursor, 1) IN
    IF ch = "0" /\ nextCh \in {"x", "X"}
    THEN scanHexNumber(src, cursor)
    ELSE IF ch = "0" /\ nextCh \in {"0","1","2","3","4","5","6","7"}
    THEN scanOctalNumber(src, cursor)
    ELSE scanDecimalNumber(src, cursor, nextCursor(src, cursor))

scanNumber(src, cursor, ch) == scanNumberic(src, cursor, ch)

RECURSIVE StringLoop(_, _, _, _, _)
StringLoop(src, start, c, ch, escaped) ==
    IF isEOF(ch)
    THEN Scanned(INCOMPLETE_STRING, start, c, FALSE, <<>>)
    ELSE IF escaped
    THEN StringLoop(src, start, nextCursor(src, c), nextRune(src, c), FALSE)
    ELSE IF ch = "\\"
    THEN StringLoop(src, start, nextCursor(src, c), nextRune(src, c), TRUE)
    ELSE IF ch = "'"
    THEN Scanned(STRING_T, start, nextCursor(src, c), FALSE, <<>>)
    ELSE StringLoop(src, start, nextCursor(src, c), nextRune(src, c), FALSE)

scanString(src, cursor) ==
    StringLoop(src, cursor, nextCursor(src, cursor), nextRune(src, cursor), FALSE)

\* the trie walk of scanIdentifier, lines 374-394
RECURSIVE KeywordLoop(_, _, _, _, _)
KeywordLoop(src, c, ch, node, pos) ==
    IF isAsciiLetter(ch) \/ ch = "_"
    THEN IF HasChild(node, UpperRune(ch))
         THEN KeywordLoop(src, nextCursor(src, c), nextRune(src, c),
                          Append(node, UpperRune(ch)), c)
         ELSE [c |-> nextCursor(src, c), ch |-> nextRune(src, c),
               node |-> keywordRoot, pos |-> pos]
    ELSE [c |-> c, ch |-> ch, node |-> node, pos |-> pos]

\* the identifier loop of scanIdentifier, lines 404-409
RECURSIVE IdentifierLoop(_, _, _)
IdentifierLoop(src, c, ch) ==
    IF isIdentifier(ch)
    THEN IdentifierLoop(src, nextByCursor(src, c, 1), nextByRune(src, c, 1))
    ELSE [c |-> c, ch |-> ch]

scanIdentifier(src, cursor, ch) ==
    LET k == KeywordLoop(src, cursor, ch, keywordRoot, cursor)
        p == peek(src, k.c)
    IN  IF NodeIsEnd(k.node) /\ (isPunctuation(p) \/ isWhitespace(p) \/ isEOF(p))
        THEN Scanned(NodeKeyword(k.node).tokenType, cursor, k.pos + 1,
                     NodeKeyword(k.node).isTableIndicator, <<>>)
        ELSE LET e == IdentifierLoop(src, k.c, k.ch)
             IN  Scanned(IF e.ch = "(" THEN FUNCTION ELSE IDENT,
                         cursor, e.c, FALSE, <<>>)

RECURSIVE QuotedLoop(_, _, _, _, _, _, _)
QuotedLoop(src, start, c, ch, quotes, delimiter, closingDelimiter) ==
    IF ch = closingDelimiter
    THEN IF matchAt(src, c, <<closingDelimiter, ".", delimiter>>)
         THEN QuotedLoop(src, start, nextByCursor(src, c, 3), nextByRune(src, c, 3),
                         quotes \o <<c, c + 2>>, delimiter, closingDelimiter)
         ELSE Scanned(QUOTED_IDENT, start, nextCursor(src, c), FALSE,
                      Append(quotes, c))
    ELSE IF isEOF(ch)
    THEN Scanned(ERROR, start, c, FALSE, quotes)
    ELSE QuotedLoop(src, start, nextCursor(src, c), nextRune(src, c),
                    quotes, delimiter, closingDelimiter)

scanDoubleQuotedIdentifier(src, cursor, delimiter) ==
    QuotedLoop(src, cursor, nextCursor(src, cursor), nextRune(src, cursor),
               <<cursor>>, delimiter,
               IF delimiter = "[" THEN "]" ELSE delimiter)

RECURSIVE WhitespaceLoop(_, _, _)
WhitespaceLoop(src, c, ch) ==
    IF isWhitespace(ch)
    THEN WhitespaceLoop(src, nextCursor(src, c), nextRune(src, c))
    ELSE c

scanWhitespace(src, cursor) ==
    Scanned(WS, cursor,
            WhitespaceLoop(src, nextCursor(src, cursor), nextRune(src, cursor)),
            FALSE, <<>>)

RECURSIVE OperatorLoopGreedy(_, _, _, _)
OperatorLoopGreedy(src, c, ch, lastCh) ==
    IF isOperator(ch)
    THEN OperatorLoopGreedy(src, nextCursor(src, c), nextRune(src, c), ch)
    ELSE c

RECURSIVE OperatorLoop(_, _, _, _)
OperatorLoop(src, c, ch, lastCh) ==
    IF isOperator(ch) /\ ~(lastCh = "=" /\ ch \in {"?", "@"})
    THEN OperatorLoop(src, nextCursor(src, c), nextRune(src, c), ch)
    ELSE c

scanOperator(src, cursor, lastCh) ==
    LET c1 == nextCursor(src, cursor)
        ch == nextRune(src, cursor)
        c2 == nextCursor(src, c1)
        ch2 == nextRune(src, c1)
        json(c) == Scanned(JSON_OP, cursor, c, FALSE, <<>>)
    IN  IF lastCh \in {"-", "#"} /\ ch = ">"
        THEN json(IF ch2 = ">" THEN nextCursor(src, c2) ELSE c2)
        ELSE IF lastCh = "#" /\ ch = "-"
        THEN json(c2)
        ELSE IF lastCh = "?" /\ ch \in {"|", "&"}
        THEN json(c2)
        ELSE IF lastCh = "<" /\ ch = "@"
        THEN json(c2)
        ELSE Scanned(OPERATOR, cursor, OperatorLoop(src, c1, ch, lastCh),
                     FALSE, <<>>)

scanWildcard(src, cursor) ==
    Scanned(WILDCARD, cursor, nextCursor(src, cursor), FALSE, <<>>)

RECURSIVE SingleLineCommentLoop(_, _, _)
SingleLineCommentLoop(src, c, ch) ==
    IF ch # "\n" /\ ~isEOF(ch)
    THEN SingleLineCommentLoop(src, nextCursor(src, c), nextRune(src, c))
    ELSE c

scanSingleLineComment(src, cursor) ==
    Scanned(COMMENT, cursor,
            SingleLineCommentLoop(src, nextByCursor(src, cursor, 2),
                                  nextByRune(src, cursor, 2)),
            FALSE, <<>>)

RECURSIVE MultiLineCommentLoop(_, _, _, _)
MultiLineCommentLoop(src, start, c, ch) ==
    IF ch = "*" /\ lookAhead(src, c, 1) = "/"
    THEN Scanned(MULTILINE_COMMENT, start, nextByCursor(src, c, 2), FALSE, <<>>)
    ELSE IF isEOF(ch)
    THEN Scanned(ERROR, start, c, FALSE, <<>>)
    ELSE MultiLineCommentLoop(src, start, nextCursor(src, c), nextRune(src, c))

scanMultiLineComment(src, cursor) ==
    MultiLineCommentLoop(src, cursor, nextByCursor(src, cursor, 2),
                         nextByRune(src, cursor, 2))

scanPunctuation(src, cursor) ==
    Scanned(PUNCTUATION, cursor, nextCursor(src, cursor), FALSE, <<>>)

RECURSIVE DollarTagLoop(_, _, _)
DollarTagLoop(src, c, ch) ==
    IF c < Len(src) /\ ch # "$"
    THEN DollarTagLoop(src, nextCursor(src, c), nextRune(src, c))
    ELSE c

FuncTag == <<"$", "f", "u", "n", "c", "$">>

RECURSIVE DollarBodyLoop(_, _, _, _)
DollarBodyLoop(src, start, c, tag) ==
    IF c < Len(src)
    THEN IF matchAt(src, c, tag)
         THEN Scanned(IF tag = FuncTag THEN DOLLAR_QUOTED_FUNCTION
                                       ELSE DOLLAR_QUOTED_STRING,
                      start, nextByCursor(src, c, Len(tag)), FALSE, <<>>)
         ELSE DollarBodyLoop(src, start, nextCursor(src, c), tag)
    ELSE Scanned(ERROR, start, c, FALSE, <<>>)

scanDollarQuotedStringLastTag(src, cursor) ==
    LET tagStart == nextCursor(src, cursor)
        c1 == DollarTagLoop(src, tagStart, nextRune(src, cursor))
        c2 == nextCursor(src, c1)
        tag == Slice(src, tagStart - 1, c2)
        later == {k \in c2..Len(src) : matchAt(src, k, tag)}
    IN  IF later = {} THEN DollarBodyLoop(src, cursor, c2, tag)
        ELSE DollarBodyLoop(src, cursor,
                            CHOOSE k \in later : \A j \in later : j <= k, tag)

scanDollarQuotedString(src, cursor) ==
    LET tagStart == nextCursor(src, cursor)
        c1 == DollarTagLoop(src, tagStart, nextRune(src, cursor))
        c2 == nextCursor(src, c1)
        tag == Slice(src, tagStart - 1, c2)
    IN  DollarBodyLoop(src, cursor, c2, tag)

RECURSIVE DigitLoop(_, _, _)
DigitLoop(src, c, ch) ==
    IF isDigit(ch) THEN DigitLoop(src, nextCursor(src, c), nextRune(src, c)) ELSE c

scanPositionalParameter(src, cursor) ==
    Scanned(POSITIONAL_PARAMETER, cursor,
            DigitLoop(src, nextByCursor(src, cursor, 2), nextByRune(src, cursor, 2)),
            FALSE, <<>>)

RECURSIVE AlphaNumericLoop(_, _, _)
AlphaNumericLoop(src, c, ch) ==
    IF isAlphaNumeric(ch)
    THEN AlphaNumericLoop(src, nextCursor(src, c), nextRune(src, c))
    ELSE c

scanBindParameter(src, cursor) ==
    Scanned(BIND_PARAMETER, cursor,
            AlphaNumericLoop(src, nextByCursor(src, cursor, 2),
                             nextByRune(src, cursor, 2)),
            FALSE, <<>>)

scanSystemVariable(src, cursor) ==
    LET c == nextByCursor(src, cursor, 2)
        ch == nextByRune(src, cursor, 2)
    IN  IF ~isAlphaNumeric(ch)
        THEN Scanned(ERROR, cursor, c, FALSE, <<>>)
        ELSE Scanned(SYSTEM_VARIABLE, cursor, AlphaNumericLoop(src, c, ch),
                     FALSE, <<>>)

\* Scan's default branch, line 220: emit(UNKNOWN) with the lexer untouched
scanUnknown(src, start, cursor) == Scanned(UNKNOWN, start, cursor, FALSE, <<>>)

\* an EOF branch that steps back over the character before the end
scanEOFRewinding(src, start, cursor) ==
    LET c == IF cursor > 0 THEN cursor - 1 ELSE 0 IN
    Scanned(EOF, c, c, FALSE, <<>>)

\* Scan's isEOF branch, line 218
scanEOF(src, start, cursor) == Scanned(EOF, start, cursor, FALSE, <<>>)

\* the body of Scan's '#' case, lines 182-188, also entered by the
\* fallthrough of the backtick case
scanHash(src, cursor, ch, dbms) ==
    IF dbms = DBMSSQLServer THEN scanIdentifier(src, cursor, ch)
    ELSE IF dbms = DBMSMySQL THEN scanSingleLineComment(src, cursor)
    ELSE scanOperator(src, cursor, ch)

\* the body of Scan's '@' case, lines 190-211
scanAt(src, cursor, ch, dbms) ==
    LET l1 == lookAhead(src, cursor, 1) IN
    IF l1 = "@"
    THEN IF isAlphaNumeric(lookAhead(src, cursor, 2))
         THEN scanSystemVariable(src, cursor)
         ELSE Scanned(JSON_OP, cursor, nextByCursor(src, cursor, 2), FALSE, <<>>)
    ELSE IF isAlphaNumeric(l1)
    THEN IF dbms = DBMSSnowflake
         THEN scanIdentifier(src, cursor, ch)
         ELSE scanBindParameter(src, cursor)
    ELSE IF l1 \in {"?", ">"}
    THEN Scanned(JSON_OP, cursor, nextByCursor(src, cursor, 2), FALSE, <<>>)
    ELSE scanOperator(src, cursor, ch)

\* Lexer.Scan up to the call of emit
ScanDispatch(src, start, cursor, dbms) ==
    LET ch == peek(src, cursor)
        l1 == lookAhead(src, cursor, 1)
    IN  IF isWhitespace(ch) THEN scanWhitespace(src, cursor)
        ELSE IF isLetter(ch) THEN scanIdentifier(src, cursor, ch)
        ELSE IF isDoubleQuote(ch) THEN scanDoubleQuotedIdentifier(src, cursor, "\"")
        ELSE IF isSingleQuote(ch) THEN scanString(src, cursor)
        ELSE IF isSingleLineComment(ch, l1) THEN scanSingleLineComment(src, cursor)
        ELSE IF isMultiLineComment(ch, l1) THEN scanMultiLineComment(src, cursor)
        ELSE IF isLeadingSign(ch)
        THEN IF isDigit(l1) \/ l1 = "."
             THEN scanNumberWithLeadingSign(src, cursor)
             ELSE scanOperator(src, cursor, ch)
        ELSE IF isDigit(ch) THEN scanNumber(src, cursor, ch)
        ELSE IF isWildcard(ch) THEN scanWildcard(src, cursor)
        ELSE IF ch = "$"
        THEN IF isDigit(l1) THEN scanPositionalParameter(src, cursor)
             ELSE IF dbms = DBMSSQLServer /\ isLetter(l1)
             THEN scanIdentifier(src, cursor, ch)
             ELSE scanDollarQuotedString(src, cursor)
        ELSE IF ch = ":"
        THEN IF dbms = DBMSOracle /\ isAlphaNumeric(l1)
             THEN scanBindParameter(src, cursor)
             ELSE scanOperator(src, cursor, ch)
        ELSE IF ch = BACKTICK
        THEN IF dbms = DBMSMySQL
             THEN scanDoubleQuotedIdentifier(src, cursor, BACKTICK)
             ELSE scanHash(src, cursor, ch, dbms)
        ELSE IF ch = "#" THEN scanHash(src, cursor, ch, dbms)
        ELSE IF ch = "@" THEN scanAt(src, cursor, ch, dbms)
        ELSE IF isOperator(ch) THEN scanOperator(src, cursor, ch)
        ELSE IF isPunctuation(ch)
        THEN IF ch = "[" /\ dbms = DBMSSQLServer
             THEN scanDoubleQuotedIdentifier(src, cursor, "[")
             ELSE scanPunctuation(src, cursor)
        ELSE IF isEOF(ch) THEN scanEOF(src, start, cursor)
        ELSE scanUnknown(src, start, cursor)

\* Lexer.emit: the token record.  Value is Token.Value(source), the span.
emit(src, s) ==
    [Type |-> s.Type,
     IsTableIndicator |-> s.isTableIndicator,
     Start |-> s.start,
     End |-> s.cursor,
     Quotes |-> s.quotes,
     Value |-> Slice(src, s.start, s.cursor),
     OutputValue |-> <<>>]

\* Lexer.Scan: the token it returns; the lexer's cursor and start are then
\* both the token's End (emit, line 639)
Scan(src, start, cursor, dbms) == emit(src, ScanDispatch(src, start, cursor, dbms))


-----------------------------------------------------------------------------
(* Tokens as the normalizer sees them.                                     *)

\* a nil *LastValueToken
NilLastValueToken == [Type |-> "nil", Value |-> <<>>, IsTableIndicator |-> FALSE]

\* the lexer's token record before the first Scan
NoToken ==
    [Type |-> "none", IsTableIndicator |-> FALSE, Start |-> 0, End |-> 0,
     Quotes |-> <<>>, Value |-> <<>>, OutputValue |-> <<>>]

StringPlaceholder == <<"?">>

NumberPlaceholder == <<"?">>

\* Token.String (sqllexer.go:73-78) in normalizer.go; the token's Value
\* field in the pooled normalizer, which works on a token that owns its text
String(variant, t) ==
    IF variant = "plain"
    THEN IF t.OutputValue # <<>> THEN t.OutputValue ELSE t.Value
    ELSE t.Value

\* Token.SetOutputValue (sqllexer.go:61-66); an assignment to token.Value
\* in the pooled normalizer
SetOutputValue(variant, t, v) ==
    IF variant = "plain"
    THEN [t EXCEPT !.OutputValue = v]
    ELSE [t EXCEPT !.Value = v]

\* Token.GetLastValueToken, sqllexer.go:80-86
GetLastValueToken(variant, t) ==
    [Type |-> t.Type, Value |-> String(variant, t),
     IsTableIndicator |-> t.IsTableIndicator]

\* isValueToken is not part of src/: the last-value summary of section 3 is
\* taken from every token that is neither end of input, space nor comment
isValueToken(t) == t.Type \notin {EOF, WS, COMMENT, MULTILINE_COMMENT}

RECURSIVE DropOffsets(_, _, _)
DropOffsets(text, offset, drop) ==
    IF text = <<>> THEN <<>>
    ELSE (IF offset \in drop THEN <<>> ELSE <<Head(text)>>)
         \o DropOffsets(Tail(text), offset + 1, drop)

\* trimQuotes is not part of src/: the token's text without the runes at the
\* quote offsets the lexer recorded (section 4.1, quoted identifiers)
trimQuotes(t) ==
    IF t.Quotes = <<>> THEN t.Value
    ELSE DropOffsets(Slice(t.Value, 0, t.End - t.Start), t.Start, Range(t.Quotes))

-----------------------------------------------------------------------------
(* Statement metadata.                                                     *)

\* &StatementMetadata{...} of normalizer.go:143-148 and of the pool's New,
\* part_000:136-147; also what reset leaves, part_000:151-163
EmptyMetadata ==
    [Size |-> 0, Tables |-> <<>>, Comments |-> <<>>, Commands |-> <<>>,
     Procedures |-> <<>>,
     tablesSet |-> {}, commentsSet |-> {}, commandsSet |-> {},
     proceduresSet |-> {}]

\* a reset that leaves the record as it is
resetNothing(sm) == sm

reset(sm) == EmptyMetadata

\* an addMetadata that does not consult the set
addMetadataSliceUnchecked(value, set, slice) == Append(slice, value)

\* one metadata sequence after addMetadata, part_000:110-116
addMetadataSlice(value, set, slice) ==
    IF value \notin set THEN Append(slice, value) ELSE slice

addMetadataSet(value, set) == set \cup {value}

addMetadataSize(value, set, size) ==
    IF value \notin set THEN size + Len(value) ELSE size

\* a collectMetadata that files a table name under procedures
AddTableMisfiled(variant, sm, v) ==
    [sm EXCEPT !.Procedures = Append(@, v)]

\* append in normalizer.go (plain), addMetadata in part_000 (pooled)
AddTable(variant, sm, v) ==
    IF variant = "plain"
    THEN [sm EXCEPT !.Tables = Append(@, v)]
    ELSE [sm EXCEPT !.Tables = addMetadataSlice(v, sm.tablesSet, @),
                    !.Size = addMetadataSize(v, sm.tablesSet, @),
                    !.tablesSet = addMetadataSet(v, @)]

AddComment(variant, sm, v) ==
    IF variant = "plain"
    THEN [sm EXCEPT !.Comments = Append(@, v)]
    ELSE [sm EXCEPT !.Comments = addMetadataSlice(v, sm.commentsSet, @),
                    !.Size = addMetadataSize(v, sm.commentsSet, @),
                    !.commentsSet = addMetadataSet(v, @)]

AddCommand(variant, sm, v) ==
    IF variant = "plain"
    THEN [sm EXCEPT !.Commands = Append(@, v)]
    ELSE [sm EXCEPT !.Commands = addMetadataSlice(v, sm.commandsSet, @),
                    !.Size = addMetadataSize(v, sm.commandsSet, @),
                    !.commandsSet = addMetadataSet(v, @)]

AddProcedure(variant, sm, v) ==
    IF variant = "plain"
    THEN [sm EXCEPT !.Procedures = Append(@, v)]
    ELSE [sm EXCEPT !.Procedures = addMetadataSlice(v, sm.proceduresSet, @),
                    !.Size = addMetadataSize(v, sm.proceduresSet, @),
                    !.proceduresSet = addMetadataSet(v, @)]

RECURSIVE DedupeFrom(_, _)
DedupeFrom(metadata, metadataSeen) ==
    IF metadata = <<>> THEN <<>>
    ELSE IF Head(metadata) \in metadataSeen
    THEN DedupeFrom(Tail(metadata), metadataSeen)
    ELSE <<Head(metadata)>>
         \o DedupeFrom(Tail(metadata), metadataSeen \cup {Head(metadata)})

\* dedupeCollectedMetadata, normalizer.go:358-371: the deduplicated list
dedupeCollectedMetadata(metadata) == DedupeFrom(metadata, {})

\* dedupeCollectedMetadata: the size it returns
dedupeCollectedSize(metadata) == SumLen(dedupeCollectedMetadata(metadata))

\* dedupeStatementMetadata, normalizer.go:373-380
dedupeStatementMetadata(info) ==
    [info EXCEPT
       !.Tables = dedupeCollectedMetadata(info.Tables),
       !.Comments = dedupeCollectedMetadata(info.Comments),
       !.Commands = dedupeCollectedMetadata(info.Commands),
       !.Procedures = dedupeCollectedMetadata(info.Procedures),
       !.Size = info.Size + dedupeCollectedSize(info.Tables)
                          + dedupeCollectedSize(info.Comments)
                          + dedupeCollectedSize(info.Commands)
                          + dedupeCollectedSize(info.Procedures)]

-----------------------------------------------------------------------------
(* The normalizer's per-token steps as functions of the call's state.      *)

\* a nil map (part_000:195) or a made one
NilCtes == [nil |-> TRUE, names |-> {}]

MakeCtes == [nil |-> FALSE, names |-> {}]

\* shouldCollectMetadata, part_000:222-224; normalizer.go collects always
shouldCollectMetadata(variant, n) ==
    variant = "plain"
    \/ n.CollectTables \/ n.CollectCommands \/ n.CollectComments
    \/ n.CollectProcedure

\* the value collectMetadata files an identifier under
TokenVal(variant, t) ==
    IF t.Type = QUOTED_IDENT THEN trimQuotes(t) ELSE String(variant, t)

\* the token after collectMetadata: normalizer.go:188-193 sets the output
\* value of a quoted identifier; part_000:237-244 also retypes it
CollectToken(variant, n, t) ==
    IF t.Type = QUOTED_IDENT /\ ~n.KeepIdentifierQuotation
    THEN IF variant = "plain"
         THEN SetOutputValue(variant, t, trimQuotes(t))
         ELSE [t EXCEPT !.Value = trimQuotes(t), !.Type = IDENT]
    ELSE t

\* ctes[tokenVal] = true, normalizer.go:196, on a map that is not nil
AddCte(ctes, tokenVal) == [ctes EXCEPT !.names = @ \cup {tokenVal}]

\* collectMetadata, normalizer.go:177-207 and part_000:226-255.
\* panic: the assignment ctes[tokenVal] = true to a nil map.
collectMetadata(variant, n, t, lastValueToken, sm, ctes) ==
    LET same == [token |-> t, sm |-> sm, ctes |-> ctes, panic |-> FALSE] IN
    IF n.CollectComments /\ t.Type \in {COMMENT, MULTILINE_COMMENT}
    THEN [same EXCEPT !.sm = AddComment(variant, sm, String(variant, t))]
    ELSE IF t.Type = COMMAND
    THEN IF n.CollectCommands
         THEN [same EXCEPT !.sm = AddCommand(variant, sm, ToUpper(String(variant, t)))]
         ELSE same
    ELSE IF t.Type \in {IDENT, QUOTED_IDENT, FUNCTION}
    THEN LET tokenVal == TokenVal(variant, t)
             tok == CollectToken(variant, n, t)
             s2 == [same EXCEPT !.token = tok]
         IN  IF lastValueToken # NilLastValueToken
                /\ lastValueToken.Type = CTE_INDICATOR
             THEN IF ctes.nil
                  THEN [s2 EXCEPT !.panic = TRUE]
                  ELSE [s2 EXCEPT !.ctes = AddCte(ctes, tokenVal)]
             ELSE IF n.CollectTables /\ lastValueToken # NilLastValueToken
                     /\ lastValueToken.IsTableIndicator
             THEN IF tokenVal \notin ctes.names
                  THEN [s2 EXCEPT !.sm = AddTable(variant, sm, tokenVal)]
                  ELSE s2
             ELSE IF n.CollectProcedure /\ lastValueToken # NilLastValueToken
                     /\ lastValueToken.Type = PROC_INDICATOR
             THEN [s2 EXCEPT !.sm = AddProcedure(variant, sm, tokenVal)]
             ELSE s2
    ELSE same

\* a writeToken that writes every token in upper case when asked for
\* upper-case keywords
writeTokenAllUpper(n, tokenType, tokenValue, builder) ==
    IF n.UppercaseKeywords
    THEN builder \o ToUpper(tokenValue)
    ELSE builder \o tokenValue

\* writeToken, normalizer.go:284-290
writeToken(n, tokenType, tokenValue, builder) ==
    IF n.UppercaseKeywords /\ tokenType \in {COMMAND, KEYWORD}
    THEN builder \o ToUpper(tokenValue)
    ELSE builder \o tokenValue

\* an appendWhitespace that does not know the option
\* remove-space-between-parentheses
appendWhitespaceKeepSpace(n, v, lastValueToken, builder) ==
    IF v = <<",">> \/ v = <<";">>
    THEN builder
    ELSE IF v = <<"=">> /\ lastValueToken # NilLastValueToken
            /\ lastValueToken.Value = <<":">>
    THEN builder
    ELSE Append(builder, " ")

\* appendWhitespace, normalizer.go:325-348; v is token.String(source)
appendWhitespace(n, v, lastValueToken, builder) ==
    IF n.RemoveSpaceBetweenParentheses /\ lastValueToken # NilLastValueToken
       /\ (lastValueToken.Type = FUNCTION \/ lastValueToken.Value = <<"(">>
           \/ lastValueToken.Value = <<"[">>)
    THEN builder
    ELSE IF n.RemoveSpaceBetweenParentheses /\ (v = <<")">> \/ v = <<"]">>)
    THEN builder
    ELSE IF v = <<",">> \/ v = <<";">>
    THEN builder
    ELSE IF v = <<"=">> /\ lastValueToken # NilLastValueToken
            /\ lastValueToken.Value = <<":">>
    THEN builder
    ELSE Append(builder, " ")

\* an isObfuscatedValueGroupable that never asks for a token to be left out
isObfuscatedValueNeverGrouped(v, lastValueToken, groupable, builder) ==
    [ret |-> FALSE, groupable |-> groupable, builder |-> builder, panic |-> FALSE]

\* isObfuscatedValueGroupable, normalizer.go:292-323; v is
\* token.String(source).  panic: lastValueToken.Value read through a nil
\* lastValueToken (line 294, and line 314 should groupable be set).
isObfuscatedValueGroupable(v, lastValueToken, groupable, builder) ==
    LET isNil == lastValueToken = NilLastValueToken
        placeholder == v = NumberPlaceholder \/ v = StringPlaceholder
        res(r, g, b, p) == [ret |-> r, groupable |-> g, builder |-> b, panic |-> p]
        \* lines 293-302
        opens == placeholder /\ ~isNil
                 /\ (lastValueToken.Value = <<"(">> \/ lastValueToken.Value = <<"[">>)
        g1 == IF opens THEN TRUE ELSE groupable
    IN  IF placeholder /\ isNil
        THEN res(FALSE, groupable, builder, TRUE)
        ELSE IF placeholder /\ ~opens /\ lastValueToken.Value = <<",">> /\ groupable
        THEN res(TRUE, groupable, builder, FALSE)
        ELSE IF ~isNil /\ (lastValueToken.Value = NumberPlaceholder
                           \/ lastValueToken.Value = StringPlaceholder)
                /\ v = <<",">> /\ g1
        THEN res(TRUE, g1, builder, FALSE)
        ELSE IF g1 /\ (v = <<")">> \/ v = <<"]">>)
        THEN res(FALSE, FALSE, builder, FALSE)
        ELSE IF g1 /\ ~placeholder /\ isNil
        THEN res(FALSE, g1, builder, TRUE)
        ELSE IF g1 /\ ~placeholder /\ lastValueToken.Value = <<",">>
        THEN res(FALSE, g1, builder \o lastValueToken.Value, FALSE)
        ELSE res(FALSE, g1, builder, FALSE)

\* var headState headState
ZeroHeadState ==
    [readFirstNonWSNonComment |-> FALSE,
     inLeadingParenthesesExpression |-> FALSE,
     foundLeadingExpressionInParentheses |-> FALSE,
     standaloneExpressionInParentheses |-> FALSE,
     expressionInParentheses |-> <<>>]

\* normalizeSQL up to the dollar-quoted rewrite: the unquoting of
\* part_000:259-261
NormalizeToken(variant, n, t) ==
    IF variant = "pooled" /\ t.Type = QUOTED_IDENT /\ ~n.KeepIdentifierQuotation
    THEN [t EXCEPT !.Value = trimQuotes(t)]
    ELSE t

\* normalizeSQL, normalizer.go:213-227: the head state after the
\* first-token test and the standalone test (t is not EOF, space or comment)
HeadSeen(variant, t, headState) ==
    LET h1 == IF ~headState.readFirstNonWSNonComment
              THEN IF t.Type = PUNCTUATION /\ String(variant, t) = <<"(">>
                   THEN [headState EXCEPT !.readFirstNonWSNonComment = TRUE,
                                          !.inLeadingParenthesesExpression = TRUE,
                                          !.standaloneExpressionInParentheses = TRUE]
                   ELSE [headState EXCEPT !.readFirstNonWSNonComment = TRUE]
              ELSE headState
    IN  IF t.Type # EOF /\ h1.foundLeadingExpressionInParentheses
        THEN [h1 EXCEPT !.standaloneExpressionInParentheses = FALSE]
        ELSE h1

\* normalizeSQL, normalizer.go:220-224: the builder at EOF
WriteAtEOF(headState, builder) ==
    IF headState.standaloneExpressionInParentheses
    THEN builder \o headState.expressionInParentheses
    ELSE builder

\* normalizeSQL, normalizer.go:229: a recursive Normalize call is made
NeedsRecursion(variant, t) ==
    t.Type = DOLLAR_QUOTED_FUNCTION /\ String(variant, t) # StringPlaceholder

\* a quotedFunc that cuts one character less off each end
quotedFuncWide(variant, t) ==
    Slice(String(variant, t), 5, Len(String(variant, t)) - 5)

\* normalizer.go:232: the text between the $func$ prefix and suffix
quotedFunc(variant, t) ==
    Slice(String(variant, t), 6, Len(String(variant, t)) - 6)

\* normalizeSQL, normalizer.go:245-254: the token is discarded as part of
\* an alias
DiscardAlias(n, t, lastValueToken) ==
    /\ ~n.KeepSQLAlias
    /\ IF t.Type = ALIAS_INDICATOR THEN TRUE
       ELSE /\ lastValueToken # NilLastValueToken
            /\ lastValueToken.Type = ALIAS_INDICATOR
            /\ t.Type = IDENT

\* normalizeSQL, normalizer.go:245-280: alias elision, grouping and the
\* write of a token that is not EOF, space or comment.  fate says what
\* became of the token, reemit whether the elided AS was written before it.
NormalizeWrite(variant, n, t, lastValueToken, builder, groupable, headState) ==
    LET v == String(variant, t)
        res(b, g, h, f, r, p) ==
            [builder |-> b, groupable |-> g, headState |-> h, fate |-> f,
             reemit |-> r, panic |-> p]
        elide == ~n.KeepSQLAlias
        reemit == elide /\ t.Type # ALIAS_INDICATOR
                  /\ lastValueToken # NilLastValueToken
                  /\ lastValueToken.Type = ALIAS_INDICATOR /\ t.Type # IDENT
        b1 == IF reemit
              THEN writeToken(n, lastValueToken.Type, lastValueToken.Value,
                              appendWhitespace(n, v, lastValueToken, builder))
              ELSE builder
        grp == isObfuscatedValueGroupable(v, lastValueToken, groupable, b1)
        closes == t.Type = PUNCTUATION /\ v = <<")">>
    IN  IF DiscardAlias(n, t, lastValueToken)
        THEN res(builder, groupable, headState, "elided", FALSE, FALSE)
        ELSE IF grp.panic
        THEN res(b1, groupable, headState, "panic", reemit, TRUE)
        ELSE IF grp.ret
        THEN res(grp.builder, grp.groupable, headState, "grouped", reemit, FALSE)
        ELSE IF headState.inLeadingParenthesesExpression
        THEN res(grp.builder, grp.groupable,
                 [headState EXCEPT
                    !.expressionInParentheses =
                        writeToken(n, t.Type, v,
                                   appendWhitespace(n, v, lastValueToken, @)),
                    !.inLeadingParenthesesExpression = ~closes,
                    !.foundLeadingExpressionInParentheses = (closes \/ @)],
                 "written", reemit, FALSE)
        ELSE res(writeToken(n, t.Type, v,
                            appendWhitespace(n, v, lastValueToken, grp.builder)),
                 grp.groupable, headState, "written", reemit, FALSE)

\* trimNormalizedSQL, normalizer.go:350-356
trimNormalizedSQL(n, normalizedSQL) ==
    TrimSpace(IF ~n.KeepTrailingSemicolon
              THEN TrimSuffixSemicolon(normalizedSQL)
              ELSE normalizedSQL)

-----------------------------------------------------------------------------
(* The program as a state machine: one Normalize call at a time walks its  *)
(* loop of Scan, collectMetadata and normalizeSQL; a lexer client calls    *)
(* Scan on its own lexer.                                                  *)

VARIABLES
    variant,              \* which normalizer file is built: "plain" (normalizer.go) or "pooled" (part_000)
    n,                    \* the Normalizer's config of the running call
    lexer,                \* the Lexer: src, cursor, start, dbms
    token,                \* the lexer's token record, as last returned
    lastValueToken,       \* Normalize's local of that name
    normalizedSQLBuilder, \* Normalize's output builder
    groupable,            \* groupablePlaceholder.groupable
    headState,            \* Normalize's headState
    ctes,                 \* Normalize's CTE map
    statementMetadata,    \* the heap address of the call's StatementMetadata
    pc,                   \* where control is
    stack,                \* the suspended outer Normalize calls
    heap,                 \* the StatementMetadata objects allocated so far
    pool,                 \* statementMetadataPool: the addresses it holds
    results,              \* what finished top-level Normalize calls returned
    hist,                 \* the tokens of the running call, with what was written for each
    o,                    \* the SQLObfuscator's config of the running Obfuscate call
    obfuscatedSQL         \* Obfuscate's local of that name

vars == <<variant, n, lexer, token, lastValueToken, normalizedSQLBuilder,
          groupable, headState, ctes, statementMetadata, pc, stack, heap,
          pool, results, hist, o, obfuscatedSQL>>

\* normalizerConfig, normalizer.go:7-37
Config(ct, cc, cm, cp, ka, uk, rs, ks, kq) ==
    [CollectTables |-> ct, CollectCommands |-> cc, CollectComments |-> cm,
     CollectProcedure |-> cp, KeepSQLAlias |-> ka, UppercaseKeywords |-> uk,
     RemoveSpaceBetweenParentheses |-> rs, KeepTrailingSemicolon |-> ks,
     KeepIdentifierQuotation |-> kq]

\* &normalizerConfig{}: every option off
ZeroConfig == Config(FALSE, FALSE, FALSE, FALSE, FALSE, FALSE, FALSE, FALSE, FALSE)

\* New, sqllexer.go:120-132
New(input, dbms) == [src |-> input, cursor |-> 0, start |-> 0, dbms |-> dbms]

\* how many Scan calls past the Len(src) + 1 that suffice when every token
\* but EOF is at least one character long a lexer is followed for
ExtraScans == 2

ScanBudget(lx) == Len(lx.src) + 1 + ExtraScans

\* what hist keeps of a token just scanned
Scanned0(t) ==
    [Type |-> t.Type, Value |-> t.Value, IsTableIndicator |-> t.IsTableIndicator,
     Start |-> t.Start, End |-> t.End, cursorBefore |-> t.Start,
     ident |-> trimQuotes(t),
     fate |-> "pending", asType |-> t.Type, wrote |-> <<>>, reemit |-> FALSE,
     last |-> NilLastValueToken, collected |-> FALSE, inCtes |-> FALSE]

SetLast(h, e) == [h EXCEPT ![Len(h)] = e]

\* the locals of a Normalize call at its start, normalizer.go:135-155 and
\* part_000:181-202; b is the address the metadata is at
StartCall(input, dbms, b) ==
    /\ lexer' = New(input, dbms)
    /\ token' = NoToken
    /\ lastValueToken' = NilLastValueToken
    /\ normalizedSQLBuilder' = <<>>
    /\ groupable' = FALSE
    /\ headState' = ZeroHeadState
    /\ ctes' = IF variant = "plain" \/ n'.CollectTables THEN MakeCtes ELSE NilCtes
    /\ statementMetadata' = b
    /\ hist' = <<>>
    /\ pc' = "scan"

\* statementMetadata = &StatementMetadata{...} (normalizer.go:143) at a
\* fresh address b = Len(heap) + 1, or statementMetadataPool.Get() followed
\* by reset() (part_000:189-190): Get hands out any address the pool holds,
\* or calls New
GetMetadata(b) ==
    IF b = Len(heap) + 1
    THEN /\ heap' = Append(heap, EmptyMetadata)
         /\ pool' = pool
    ELSE /\ heap' = [heap EXCEPT ![b] = reset(@)]
         /\ pool' = pool \ {b}

\* a pool that hands the record of the running call to the call it makes
AvailableInUse ==
    IF variant = "pooled" /\ pc = "normalize"
    THEN {statementMetadata}
    ELSE IF variant = "plain" THEN {Len(heap) + 1} ELSE pool \cup {Len(heap) + 1}

Available ==
    IF variant = "plain" THEN {Len(heap) + 1} ELSE pool \cup {Len(heap) + 1}

\* a run-time panic unwinds every Normalize frame; the deferred Put of
\* part_000:191 runs in each
Panic ==
    /\ pc' = "panic"
    /\ pool' = IF variant = "pooled"
               THEN pool \cup {statementMetadata}
                         \cup {stack[i].statementMetadata : i \in 1..Len(stack)}
               ELSE pool

\* a caller calls n.Normalize(input, WithDBMS(dbms)) on a Normalizer whose
\* config is cfg
Call(Inputs, Configs, Dialects, maxCalls) ==
    /\ pc \in {"idle", "done"}
    /\ Len(results) < maxCalls
    /\ \E input \in Inputs, cfg \in Configs, dbms \in Dialects, b \in Available :
          /\ n' = cfg
          /\ StartCall(input, dbms, b)
          /\ GetMetadata(b)
    /\ stack' = <<>>
    /\ UNCHANGED <<variant, results, o, obfuscatedSQL>>

\* token := lexer.Scan(), normalizer.go:158
ScanToken ==
    /\ pc = "scan"
    /\ Len(hist) < ScanBudget(lexer)
    /\ LET t == Scan(lexer.src, lexer.start, lexer.cursor, lexer.dbms) IN
          /\ token' = t
          /\ lexer' = [lexer EXCEPT !.cursor = t.End, !.start = t.End]
          /\ hist' = Append(hist, [Scanned0(t) EXCEPT !.cursorBefore = lexer.cursor,
                                                      !.last = lastValueToken])
    /\ pc' = "collect"
    /\ UNCHANGED <<variant, n, lastValueToken, normalizedSQLBuilder, groupable,
                   headState, ctes, statementMetadata, stack, heap, pool, results, o,
                   obfuscatedSQL>>

\* n.collectMetadata(...), normalizer.go:159; guarded by
\* shouldCollectMetadata in part_000:206-208
CollectMetadata ==
    /\ pc = "collect"
    /\ LET r == collectMetadata(variant, n, token, lastValueToken,
                                heap[statementMetadata], ctes)
           e == hist[Len(hist)]
       IN  IF ~shouldCollectMetadata(variant, n)
           THEN /\ pc' = "normalize"
                /\ UNCHANGED <<token, heap, ctes, pool, hist>>
           ELSE IF r.panic
           THEN /\ Panic
                /\ UNCHANGED <<token, heap, ctes, hist>>
           ELSE /\ pc' = "normalize"
                /\ token' = r.token
                /\ heap' = [heap EXCEPT ![statementMetadata] = r.sm]
                /\ ctes' = r.ctes
                /\ hist' = SetLast(hist,
                      [e EXCEPT !.collected = (r.sm # heap[statementMetadata]),
                                !.inCtes = (r.ctes # ctes)])
                /\ pool' = pool
    /\ UNCHANGED <<variant, n, lexer, lastValueToken, normalizedSQLBuilder,
                   groupable, headState, statementMetadata, stack, results, o,
                   obfuscatedSQL>>

\* the text a normalizeSQL step appended to its builders
Wrote(before, after, headBefore, headAfter) ==
    Slice(after, Len(before), Len(after))
    \o Slice(headAfter.expressionInParentheses,
             Len(headBefore.expressionInParentheses),
             Len(headAfter.expressionInParentheses))

\* a loop end that takes the summary from every token
LoopTailEveryToken(t) ==
    /\ lastValueToken' = GetLastValueToken(variant, t)
    /\ pc' = "scan"

\* the end of the loop body, normalizer.go:161-166, for a token that is not EOF
LoopTail(t) ==
    /\ lastValueToken' = IF isValueToken(t)
                         THEN GetLastValueToken(variant, t)
                         ELSE lastValueToken
    /\ pc' = "scan"

\* the suspended caller's locals
Frame(t, h) ==
    [lexer |-> lexer, token |-> t, lastValueToken |-> lastValueToken,
     normalizedSQLBuilder |-> normalizedSQLBuilder, groupable |-> groupable,
     headState |-> h, ctes |-> ctes, statementMetadata |-> statementMetadata,
     hist |-> hist]

\* n.normalizeSQL(...), normalizer.go:209-282, up to its return or to the
\* recursive Normalize call of line 233
NormalizeSQL ==
    /\ pc = "normalize"
    /\ LET t == NormalizeToken(variant, n, token)
           h == HeadSeen(variant, t, headState)
           r == NormalizeWrite(variant, n, t, lastValueToken,
                               normalizedSQLBuilder, groupable, h)
           e == [hist[Len(hist)] EXCEPT !.asType = t.Type]
       IN  IF token.Type \in {WS, COMMENT, MULTILINE_COMMENT}
           THEN /\ LoopTail(token)
                /\ hist' = SetLast(hist, [e EXCEPT !.fate = "skipped"])
                /\ UNCHANGED <<n, lexer, token, normalizedSQLBuilder, groupable,
                               headState, ctes, statementMetadata, stack, heap, pool>>
           ELSE IF t.Type = EOF
           THEN /\ normalizedSQLBuilder' = WriteAtEOF(h, normalizedSQLBuilder)
                /\ headState' = h
                /\ token' = t
                /\ pc' = "return"
                /\ hist' = SetLast(hist, [e EXCEPT !.fate = "eof"])
                /\ UNCHANGED <<n, lexer, lastValueToken, groupable, ctes,
                               statementMetadata, stack, heap, pool>>
           ELSE IF NeedsRecursion(variant, t)
           THEN /\ stack' = Append(stack, Frame(t, h))
                /\ n' = n
                /\ \E b \in Available :
                      /\ StartCall(quotedFunc(variant, t), lexer.dbms, b)
                      /\ GetMetadata(b)
           ELSE IF r.panic
           THEN /\ Panic
                /\ UNCHANGED <<n, lexer, token, lastValueToken, normalizedSQLBuilder,
                               groupable, headState, ctes, statementMetadata,
                               stack, heap, hist>>
           ELSE /\ normalizedSQLBuilder' = r.builder
                /\ groupable' = r.groupable
                /\ headState' = r.headState
                /\ token' = t
                /\ LoopTail(t)
                /\ hist' = SetLast(hist,
                      [e EXCEPT !.fate = r.fate, !.reemit = r.reemit,
                                !.wrote = Wrote(normalizedSQLBuilder, r.builder,
                                                headState, r.headState)])
                /\ UNCHANGED <<n, lexer, ctes, statementMetadata, stack, heap, pool>>
    /\ UNCHANGED <<variant, results, o, obfuscatedSQL>>

\* what a finished call hands to its caller
Result(text, b, sm) ==
    [normalizedSQL |-> text, statementMetadata |-> b, returned |-> sm,
     input |-> lexer.src, dbms |-> lexer.dbms, config |-> n]

\* Normalize returns, normalizer.go:169-174 and part_000:218-219 with the
\* deferred Put of part_000:191; a recursive call returns into normalizeSQL,
\* which runs on from line 234 to the end of the loop body
Return ==
    /\ pc = "return"
    /\ LET text == trimNormalizedSQL(n, normalizedSQLBuilder)
           sm == IF variant = "plain"
                 THEN dedupeStatementMetadata(heap[statementMetadata])
                 ELSE heap[statementMetadata]
           f == stack[Len(stack)]
           t == SetOutputValue(variant, f.token,
                               <<"$", "f", "u", "n", "c", "$">> \o text
                               \o <<"$", "f", "u", "n", "c", "$">>)
           r == NormalizeWrite(variant, n, t, f.lastValueToken,
                               f.normalizedSQLBuilder, f.groupable, f.headState)
           e == [f.hist[Len(f.hist)] EXCEPT !.asType = t.Type]
       IN  /\ heap' = [heap EXCEPT ![statementMetadata] = sm]
           /\ IF stack = <<>>
              THEN /\ results' = Append(results, Result(text, statementMetadata, sm))
                   /\ pool' = IF variant = "pooled"
                              THEN pool \cup {statementMetadata} ELSE pool
                   /\ pc' = "done"
                   /\ UNCHANGED <<lexer, token, lastValueToken, normalizedSQLBuilder,
                                  groupable, headState, ctes, statementMetadata,
                                  stack, hist>>
              ELSE /\ stack' = SubSeq(stack, 1, Len(stack) - 1)
                   /\ lexer' = f.lexer
                   /\ ctes' = f.ctes
                   /\ statementMetadata' = f.statementMetadata
                   /\ token' = t
                   /\ results' = results
                   /\ IF r.panic
                      THEN /\ pc' = "panic"
                           /\ pool' = IF variant = "pooled"
                                      THEN pool \cup {statementMetadata, f.statementMetadata}
                                                \cup {stack[i].statementMetadata :
                                                         i \in 1..Len(stack)}
                                      ELSE pool
                           /\ lastValueToken' = f.lastValueToken
                           /\ normalizedSQLBuilder' = f.normalizedSQLBuilder
                           /\ groupable' = f.groupable
                           /\ headState' = f.headState
                           /\ hist' = f.hist
                      ELSE /\ pool' = IF variant = "pooled"
                                      THEN pool \cup {statementMetadata} ELSE pool
                           /\ normalizedSQLBuilder' = r.builder
                           /\ groupable' = r.groupable
                           /\ headState' = r.headState
                           /\ lastValueToken' = GetLastValueToken(variant, t)
                           /\ pc' = "scan"
                           /\ hist' = SetLast(f.hist,
                                 [e EXCEPT !.fate = r.fate, !.reemit = r.reemit,
                                           !.wrote = Wrote(f.normalizedSQLBuilder, r.builder,
                                                           f.headState, r.headState)])
    /\ UNCHANGED <<variant, n, o, obfuscatedSQL>>

\* a lexer client calls Scan on its lexer, sqllexer.go:135-222
LexerScan ==
    /\ pc = "lexer"
    /\ Len(hist) < ScanBudget(lexer)
    /\ LET t == Scan(lexer.src, lexer.start, lexer.cursor, lexer.dbms) IN
          /\ token' = t
          /\ lexer' = [lexer EXCEPT !.cursor = t.End, !.start = t.End]
          /\ hist' = Append(hist, [Scanned0(t) EXCEPT !.cursorBefore = lexer.cursor])
    /\ UNCHANGED <<variant, n, lastValueToken, normalizedSQLBuilder, groupable,
                   headState, ctes, statementMetadata, pc, stack, heap, pool,
                   results, o, obfuscatedSQL>>

-----------------------------------------------------------------------------
(* The obfuscator, sqllexer_test.go:491-567: a second consumer of the      *)
(* token stream.  Its lexer constructor and token iterator are not part of *)
(* src/; they are Scan called until it returns EOF (section 2).            *)

\* SQLObfuscatorConfig, sqllexer_test.go:498-501
ObfuscatorConfig(rd, dq) == [ReplaceDigits |-> rd, DollarQuotedFunc |-> dq]

\* &SQLObfuscatorConfig{}
ZeroObfuscatorConfig == ObfuscatorConfig(FALSE, FALSE)

\* NewSQLLexer(input): a lexer with no dialect option
NewSQLLexer(input) == New(input, DBMSGeneric)

\* regexp.MustCompile(`\d+`).ReplaceAllString(value, "?"), line 536: every
\* maximal run of digits becomes one ?
RECURSIVE ReplaceAllDigits(_, _)
ReplaceAllDigits(value, inRun) ==
    IF value = <<>> THEN <<>>
    ELSE IF Head(value) \in DigitSet
    THEN (IF inRun THEN <<>> ELSE <<"?">>) \o ReplaceAllDigits(Tail(value), TRUE)
    ELSE <<Head(value)>> \o ReplaceAllDigits(Tail(value), FALSE)

\* strings.TrimPrefix
TrimPrefix(s, prefix) ==
    IF IsPrefix(prefix, s) THEN SubSeq(s, Len(prefix) + 1, Len(s)) ELSE s

\* strings.TrimSuffix
TrimSuffix(s, suffix) ==
    IF Len(suffix) <= Len(s) /\ SubSeq(s, Len(s) - Len(suffix) + 1, Len(s)) = suffix
    THEN SubSeq(s, 1, Len(s) - Len(suffix))
    ELSE s

\* a switch that copies a dollar-quoted string as it is
obfuscateTokenKeepDollar(cfg, t) ==
    IF t.Type = NUMBER THEN NumberPlaceholder
    ELSE IF t.Type \in {STRING_T, INCOMPLETE_STRING} THEN StringPlaceholder
    ELSE IF t.Type = IDENT /\ cfg.ReplaceDigits
    THEN ReplaceAllDigits(t.Value, FALSE)
    ELSE IF t.Type = DOLLAR_QUOTED_FUNCTION THEN <<"?">>
    ELSE t.Value

\* the switch of Obfuscate, lines 523-563, but for the recursive call of
\* line 550: what is appended to obfuscatedSQL for the token
obfuscateToken(cfg, t) ==
    IF t.Type = NUMBER THEN NumberPlaceholder
    ELSE IF t.Type = STRING_T THEN StringPlaceholder
    ELSE IF t.Type = INCOMPLETE_STRING THEN StringPlaceholder
    ELSE IF t.Type = IDENT
    THEN IF cfg.ReplaceDigits THEN ReplaceAllDigits(t.Value, FALSE) ELSE t.Value
    ELSE IF t.Type = DOLLAR_QUOTED_STRING THEN <<"?">>
    ELSE IF t.Type = DOLLAR_QUOTED_FUNCTION THEN <<"?">>
    ELSE t.Value

\* lines 519-521 of Obfuscate
StartObfuscate(input) ==
    /\ lexer' = NewSQLLexer(input)
    /\ token' = NoToken
    /\ obfuscatedSQL' = <<>>
    /\ hist' = <<>>
    /\ pc' = "obfuscate"

\* a caller calls o.Obfuscate(input) on an obfuscator whose config is cfg
ObfuscateCall(Inputs, Configs, maxCalls) ==
    /\ pc \in {"idle", "done"}
    /\ Len(results) < maxCalls
    /\ \E input \in Inputs, cfg \in Configs :
          /\ o' = cfg
          /\ StartObfuscate(input)
    /\ stack' = <<>>
    /\ UNCHANGED <<variant, n, lastValueToken, normalizedSQLBuilder, groupable,
                   headState, ctes, statementMetadata, heap, pool, results>>

\* one turn of Obfuscate's loop, lines 522-564: the next token is appended
\* as the switch says; for a dollar-quoted function with DollarQuotedFunc
\* set the loop is left for the recursive call of line 550; at the end of
\* the tokens the call returns (line 566), to its caller or into line 550
Obfuscate ==
    /\ pc = "obfuscate"
    /\ Len(hist) < ScanBudget(lexer)
    /\ LET t == Scan(lexer.src, lexer.start, lexer.cursor, lexer.dbms)
           scanned == [lexer EXCEPT !.cursor = t.End, !.start = t.End]
           e == [Scanned0(t) EXCEPT !.cursorBefore = lexer.cursor]
           text == TrimSpace(obfuscatedSQL)
           f == stack[Len(stack)]
           quoted == FuncTag \o text \o FuncTag
       IN  IF t.Type = EOF /\ stack = <<>>
           THEN /\ results' = Append(results, [obfuscatedSQL |-> text,
                                               input |-> lexer.src, config |-> o])
                /\ pc' = "done"
                /\ lexer' = scanned
                /\ token' = t
                /\ hist' = Append(hist, [e EXCEPT !.fate = "eof"])
                /\ UNCHANGED <<obfuscatedSQL, stack>>
           ELSE IF t.Type = EOF
           THEN /\ obfuscatedSQL' = f.obfuscatedSQL \o quoted
                /\ lexer' = f.lexer
                /\ token' = f.token
                /\ hist' = SetLast(f.hist, [f.hist[Len(f.hist)] EXCEPT
                                               !.fate = "written",
                                               !.wrote = quoted])
                /\ stack' = SubSeq(stack, 1, Len(stack) - 1)
                /\ UNCHANGED <<results, pc>>
           ELSE IF t.Type = DOLLAR_QUOTED_FUNCTION /\ o.DollarQuotedFunc
           THEN /\ stack' = Append(stack, [lexer |-> scanned, token |-> t,
                                           obfuscatedSQL |-> obfuscatedSQL,
                                           hist |-> Append(hist, e)])
                /\ StartObfuscate(TrimSuffix(TrimPrefix(t.Value, FuncTag), FuncTag))
                /\ UNCHANGED results
           ELSE /\ obfuscatedSQL' = obfuscatedSQL \o obfuscateToken(o, t)
                /\ lexer' = scanned
                /\ token' = t
                /\ hist' = Append(hist, [e EXCEPT !.fate = "written",
                                                  !.wrote = obfuscateToken(o, t)])
                /\ UNCHANGED <<results, pc, stack>>
    /\ UNCHANGED <<variant, n, lastValueToken, normalizedSQLBuilder, groupable,
                   headState, ctes, statementMetadata, heap, pool, o>>

\* the state before any Normalize call
Idle(v) ==
    /\ variant = v
    /\ n = ZeroConfig
    /\ lexer = New(<<>>, DBMSGeneric)
    /\ token = NoToken
    /\ lastValueToken = NilLastValueToken
    /\ normalizedSQLBuilder = <<>>
    /\ groupable = FALSE
    /\ headState = ZeroHeadState
    /\ ctes = NilCtes
    /\ statementMetadata = 0
    /\ pc = "idle"
    /\ stack = <<>>
    /\ heap = <<>>
    /\ pool = {}
    /\ results = <<>>
    /\ hist = <<>>
    /\ o = ZeroObfuscatorConfig
    /\ obfuscatedSQL = <<>>

Variants == {"plain", "pooled"}

Dialects ==
    {DBMSGeneric, DBMSPostgres, DBMSMySQL, DBMSSQLServer, DBMSOracle, DBMSSnowflake}

-----------------------------------------------------------------------------
(* The lexer alone: a client makes a lexer for some input and dialect and  *)
(* keeps calling Scan, also after it has seen EOF.                         *)

\* every sequence over alphabet of at most maxLen elements
Strings(alphabet, maxLen) == UNION {[1..k -> alphabet] : k \in 0..maxLen}

\* the longest input given to the lexer client
MaxLexLen == 3

\* the characters the lexer client's inputs are made of: the common ones
CommonChars == {"a", "1", " ", "'", "-", "/", "\\"}

\* and one or two more of every class Scan tells apart, of which an input
\* holds at most one
RareChars ==
    {"\n", "\"", "*", "$", "#", "@", "?", "=", ":", "(", "[", "]", ".", NUL,
     BACKTICK}

LexAlphabet == CommonChars \cup RareChars

LexInputs ==
    {s \in Strings(LexAlphabet, MaxLexLen) :
        Cardinality({i \in 1..Len(s) : s[i] \in RareChars}) <= 1}

LexInit ==
    /\ \E input \in LexInputs, dbms \in Dialects :
          lexer = New(input, dbms)
    /\ variant = "plain"
    /\ n = ZeroConfig
    /\ token = NoToken
    /\ lastValueToken = NilLastValueToken
    /\ normalizedSQLBuilder = <<>>
    /\ groupable = FALSE
    /\ headState = ZeroHeadState
    /\ ctes = NilCtes
    /\ statementMetadata = 0
    /\ pc = "lexer"
    /\ stack = <<>>
    /\ heap = <<>>
    /\ pool = {}
    /\ results = <<>>
    /\ hist = <<>>
    /\ o = ZeroObfuscatorConfig
    /\ obfuscatedSQL = <<>>

LexNext == LexerScan

SpecLex == LexInit /\ [][LexNext]_vars

\* C2: every Scan call that returns a token other than EOF moves the cursor
\* forward: the token's End is greater than its Start, and the cursor after
\* the call is greater than the cursor before it.
ScanAdvances ==
    \A i \in 1..Len(hist) :
        hist[i].Type # EOF =>
            /\ hist[i].End > hist[i].Start
            /\ hist[i].End > hist[i].cursorBefore

\* the index of the first EOF in hist, 0 if there is none
FirstEOF ==
    IF \E i \in 1..Len(hist) : hist[i].Type = EOF
    THEN CHOOSE i \in 1..Len(hist) :
            /\ hist[i].Type = EOF
            /\ \A j \in 1..(i - 1) : hist[j].Type # EOF
    ELSE 0

\* C3: the tokens returned up to the first EOF are contiguous: the first
\* Start is 0, each Start is the previous End, and the last End, which is
\* where EOF is returned, is the input length.
TokenCoverage ==
    FirstEOF # 0 =>
        /\ hist[1].Start = 0
        /\ \A i \in 2..FirstEOF : hist[i].Start = hist[i - 1].End
        /\ \A i \in 1..FirstEOF : hist[i].Start <= hist[i].End
        /\ hist[FirstEOF].End = Len(lexer.src)
        /\ Concat([i \in 1..FirstEOF |-> hist[i].Value]) = lexer.src

\* C4: once Scan has returned EOF, every later Scan call on the same lexer
\* returns EOF again and leaves the cursor where it was.
EOFAbsorbing ==
    \A i \in 1..Len(hist) :
        hist[i].Type = EOF =>
            \A j \in (i + 1)..Len(hist) :
                /\ hist[j].Type = EOF
                /\ hist[j].cursorBefore = hist[i].End
                /\ hist[j].End = hist[i].End
                /\ hist[j].Start = hist[i].End

\* C4 happens: after some tokens Scan returned EOF and was called twice more
EOFAbsorbingWitness ==
    /\ pc = "lexer"
    /\ Len(hist) >= 4
    /\ hist[1].Type # EOF
    /\ hist[Len(hist) - 2].Type = EOF
    /\ hist[Len(hist)].Type = EOF
    /\ lexer.cursor = hist[Len(hist) - 2].End

-----------------------------------------------------------------------------
(* Normalize on statements put together from a few words.                  *)

\* every concatenation of at most maxWords of the words
Sentences(words, maxWords) == {Concat(ws) : ws \in Strings(words, maxWords)}

WordFrom == <<"F", "R", "O", "M", " ">>

WordWith == <<"W", "I", "T", "H", " ", "t", " ">>

WordT == <<"t", " ">>

WordQuotedT == <<"\"", "t", "\"", " ">>

WordF == <<"f", "(", " ">>

WordComma == <<",", " ">>

WordComment == <<"/", "*", "c", "*", "/", " ">>

WordPlaceholder == <<"?", " ">>

Words ==
    {WordFrom, WordWith, WordT, WordQuotedT, WordF, WordComma, WordComment,
     WordPlaceholder}

\* the longest statement, in words
MaxWords == 3

\* normalizers that collect tables, that collect commands, that collect nothing
Configs ==
    {Config(TRUE, FALSE, FALSE, FALSE, FALSE, FALSE, FALSE, FALSE, FALSE),
     Config(FALSE, TRUE, FALSE, FALSE, FALSE, FALSE, FALSE, FALSE, FALSE),
     ZeroConfig}

\* the statements Normalize is called on
Inputs == Sentences(Words, MaxWords)

Init == \E v \in Variants : Idle(v)

Next ==
    \/ Call(Inputs, Configs, {DBMSGeneric}, 1)
    \/ ScanToken
    \/ CollectMetadata
    \/ NormalizeSQL
    \/ Return

Spec == Init /\ [][Next]_vars

\* C1: Normalize never fails: no call ends in a run-time panic.
NormalizeNeverFails == pc # "panic"

\* the last token before position i of h that is neither space nor comment,
\* 0 if there is none
PrevValue(h, i) ==
    LET before == {j \in 1..(i - 1) : h[j].Type \notin {WS, COMMENT, MULTILINE_COMMENT}}
    IN  IF before = {} THEN 0
        ELSE CHOOSE j \in before : \A k \in before : k <= j

IsName(e) == e.Type \in {IDENT, QUOTED_IDENT, FUNCTION}

\* the names bound before position i: those that follow a CTE_INDICATOR
CteNamesBefore(h, i) ==
    {h[k].ident : k \in {j \in 1..(i - 1) :
                            /\ IsName(h[j])
                            /\ PrevValue(h, j) # 0
                            /\ h[PrevValue(h, j)].Type = CTE_INDICATOR}}

\* the token at position i is an identifier in a table position
TableAt(h, i) ==
    /\ IsName(h[i])
    /\ PrevValue(h, i) # 0
    /\ h[PrevValue(h, i)].IsTableIndicator
    /\ h[PrevValue(h, i)].Type # CTE_INDICATOR
    /\ h[i].ident \notin CteNamesBefore(h, i)

\* s without the elements that occurred before
FirstOccurrences(s) ==
    LET keep(i) == \A j \in 1..(i - 1) : s[j] # s[i]
        idx == SelectSeq([i \in 1..Len(s) |-> i], keep)
    IN  [k \in 1..Len(idx) |-> s[idx[k]]]

\* the identifiers in table positions, in source order
TableNames(h) ==
    LET at(i) == TableAt(h, i)
        idx == SelectSeq([i \in 1..Len(h) |-> i], at)
    IN  [k \in 1..Len(idx) |-> h[idx[k]].ident]

ExpectedTables(h) == FirstOccurrences(TableNames(h))

\* the tokens collectMetadata has been called on
Collected == IF pc = "collect" THEN SubSeq(hist, 1, Len(hist) - 1) ELSE hist

\* C7: with collect-tables on, tables holds exactly the identifiers (IDENT,
\* QUOTED_IDENT, FUNCTION) whose last non-space, non-comment token carries
\* the table-indicator flag and is no CTE_INDICATOR and which are not in the
\* CTE set, in order of first occurrence; with collect-tables off, tables
\* is empty.  This holds after every token and in what Normalize returns.
TablesCollected ==
    /\ pc \in {"scan", "collect", "normalize", "return", "done"} =>
          FirstOccurrences(heap[statementMetadata].Tables)
             = IF n.CollectTables THEN ExpectedTables(Collected) ELSE <<>>
    /\ pc = "done" =>
          results[Len(results)].returned.Tables
             = IF n.CollectTables THEN ExpectedTables(hist) ELSE <<>>

\* C7 happens: a call returned tables [t] for a statement where a comment
\* stands between the indicator and t, and where another identifier that
\* follows a comma was not collected
TablesCollectedWitness ==
    /\ pc = "done"
    /\ n.CollectTables
    /\ results[Len(results)].returned.Tables = <<<<"t">>>>
    /\ \E i \in 1..Len(hist) :
          /\ hist[i].Type = COMMENT \/ hist[i].Type = MULTILINE_COMMENT
          /\ PrevValue(hist, i) # 0
          /\ hist[PrevValue(hist, i)].IsTableIndicator
          /\ i + 2 <= Len(hist)
          /\ TableAt(hist, i + 2)

-----------------------------------------------------------------------------
(* Several Normalize calls one after the other, by normalizers that        *)
(* collect everything or nothing, on statements that repeat themselves.    *)

PoolTables ==
    <<"S", "E", "L", "E", "C", "T", " ", "*", " ", "F", "R", "O", "M", " ",
      "t", " ", "J", "O", "I", "N", " ", "u", " ", "J", "O", "I", "N", " ",
      "\"", "t", "\"">>

PoolMixed ==
    <<"/", "*", "c", "*", "/", " ", "s", "e", "l", "e", "c", "t", " ", "1",
      " ", "/", "*", "c", "*", "/", " ", "P", "R", "O", "C", "E", "D", "U",
      "R", "E", " ", "p", " ", "P", "R", "O", "C", "E", "D", "U", "R", "E",
      " ", "p">>

PoolFunction ==
    <<"$", "f", "u", "n", "c", "$", "F", "R", "O", "M", " ", "v", "$", "f",
      "u", "n", "c", "$", " ", "F", "R", "O", "M", " ", "t">>

PoolInputs == {<<>>, PoolTables, PoolMixed, PoolFunction}

PoolConfigs ==
    {Config(TRUE, TRUE, TRUE, TRUE, FALSE, FALSE, FALSE, FALSE, FALSE),
     ZeroConfig}

\* the number of Normalize calls made
MaxCalls == 2

PoolNext ==
    \/ Call(PoolInputs, PoolConfigs, {DBMSPostgres}, MaxCalls)
    \/ ScanToken
    \/ CollectMetadata
    \/ NormalizeSQL
    \/ Return

SpecPool == Init /\ [][PoolNext]_vars

\* what a caller can read of a StatementMetadata
Public(sm) ==
    [Size |-> sm.Size, Tables |-> sm.Tables, Comments |-> sm.Comments,
     Commands |-> sm.Commands, Procedures |-> sm.Procedures]

\* C5: the metadata a Normalize call returned belongs to the caller: the
\* pool does not hold it, the running call does not use it, and it still
\* reads as it did when it was returned.
MetadataOwned ==
    \A i \in 1..Len(results) :
        /\ results[i].statementMetadata \notin pool
        /\ pc \in {"scan", "collect", "normalize", "return"} =>
              /\ statementMetadata # results[i].statementMetadata
              /\ \A k \in 1..Len(stack) :
                    stack[k].statementMetadata # results[i].statementMetadata
        /\ Public(heap[results[i].statementMetadata]) = Public(results[i].returned)

\* the values of h satisfying keep, mapped by val, in source order
Pick(h, keep(_), val(_)) ==
    LET idx == SelectSeq([i \in 1..Len(h) |-> i], keep)
    IN  [k \in 1..Len(idx) |-> val(idx[k])]

\* the values collectMetadata accepts from the tokens h under config cfg
AcceptedTables(h, cfg) == IF cfg.CollectTables THEN TableNames(h) ELSE <<>>

AcceptedComments(h, cfg) ==
    LET keep(i) == h[i].Type \in {COMMENT, MULTILINE_COMMENT}
        val(i) == h[i].Value
    IN  IF cfg.CollectComments THEN Pick(h, keep, val) ELSE <<>>

AcceptedCommands(h, cfg) ==
    LET keep(i) == h[i].Type = COMMAND
        val(i) == ToUpper(h[i].Value)
    IN  IF cfg.CollectCommands THEN Pick(h, keep, val) ELSE <<>>

AcceptedProcedures(h, cfg) ==
    LET keep(i) == /\ IsName(h[i])
                   /\ PrevValue(h, i) # 0
                   /\ h[PrevValue(h, i)].Type = PROC_INDICATOR
        val(i) == h[i].ident
    IN  IF cfg.CollectProcedure THEN Pick(h, keep, val) ELSE <<>>

\* sm holds the accepted values of h in order of first occurrence, each
\* once, and its size is the sum of their lengths
Deduped(sm, h, cfg) ==
    /\ sm.Tables = FirstOccurrences(AcceptedTables(h, cfg))
    /\ sm.Comments = FirstOccurrences(AcceptedComments(h, cfg))
    /\ sm.Commands = FirstOccurrences(AcceptedCommands(h, cfg))
    /\ sm.Procedures = FirstOccurrences(AcceptedProcedures(h, cfg))
    /\ NoDuplicates(sm.Tables) /\ NoDuplicates(sm.Comments)
    /\ NoDuplicates(sm.Commands) /\ NoDuplicates(sm.Procedures)
    /\ sm.Size = SumLen(sm.Tables) + SumLen(sm.Comments)
                 + SumLen(sm.Commands) + SumLen(sm.Procedures)

\* C6: what Normalize returns holds, in each of tables, comments, commands
\* and procedures, the accepted values in order of first occurrence, none
\* twice, and size is the sum of the lengths of the stored strings; in the
\* pooled variant this holds after every addition; the buffer a call starts
\* with has empty sequences and size 0.
MetadataDeduped ==
    /\ pc = "done" => Deduped(results[Len(results)].returned, hist, n)
    /\ (variant = "pooled" /\ pc \in {"scan", "collect", "normalize", "return"}) =>
          Deduped(heap[statementMetadata], Collected, n)
    /\ (pc = "scan" /\ hist = <<>>) =>
          Public(heap[statementMetadata]) = Public(EmptyMetadata)

\* C6 happens: a call that was handed the filled buffer of the call before
\* it returned tables with a repeated name stored once
MetadataDedupedWitness ==
    /\ pc = "done"
    /\ variant = "pooled"
    /\ Len(results) = 2
    /\ results[1].statementMetadata = results[2].statementMetadata
    /\ results[1].returned.Comments # <<>>
    /\ results[2].returned.Tables = <<<<"t">>, <<"u">>>>
    /\ Len(AcceptedTables(hist, n)) = 3
    /\ results[2].returned.Size = 12

-----------------------------------------------------------------------------
(* Normalize on statements that bind the name cte: WITH cte AS ( followed  *)
(* by a few words, and the statement of the specification's scenario.      *)

CTEHead ==
    <<"W", "I", "T", "H", " ", "c", "t", "e", " ", "A", "S", " ", "(", " ">>

CTEWordFrom == <<"F", "R", "O", "M", " ">>

CTEWordJoin == <<"J", "O", "I", "N", " ">>

CTEWordName == <<"c", "t", "e", " ">>

CTEWordQuotedName == <<"\"", "c", "t", "e", "\"", " ">>

CTEWordPerson == <<"p", "e", "r", "s", "o", "n", " ">>

CTEWordClose == <<")", " ">>

CTEExample ==
    <<"W", "I", "T", "H", " ", "c", "t", "e", " ", "A", "S", " ", "(", "S",
      "E", "L", "E", "C", "T", " ", "i", "d", " ", "F", "R", "O", "M", " ",
      "p", "e", "r", "s", "o", "n", " ", "W", "H", "E", "R", "E", " ", "a",
      "g", "e", " ", ">", " ", "?", ")", " ", "U", "P", "D", "A", "T", "E",
      " ", "p", "e", "r", "s", "o", "n", " ", "S", "E", "T", " ", "a", "g",
      "e", " ", "=", " ", "?", " ", "W", "H", "E", "R", "E", " ", "i", "d",
      " ", "I", "N", " ", "(", "S", "E", "L", "E", "C", "T", " ", "i", "d",
      " ", "F", "R", "O", "M", " ", "c", "t", "e", ")", ";">>

CTEWords ==
    {CTEWordFrom, CTEWordJoin, CTEWordName, CTEWordQuotedName, CTEWordPerson,
     CTEWordClose}

\* the most words that follow WITH cte AS (
MaxCTEWords == 3

CTEInputs == {CTEHead \o body : body \in Sentences(CTEWords, MaxCTEWords)} \cup {CTEExample}

\* normalizers that collect tables, alone or with everything else
CTEConfigs ==
    {Config(TRUE, FALSE, FALSE, FALSE, FALSE, FALSE, FALSE, FALSE, FALSE),
     Config(TRUE, TRUE, TRUE, TRUE, TRUE, TRUE, FALSE, FALSE, TRUE)}

CTENext ==
    \/ Call(CTEInputs, CTEConfigs, {DBMSGeneric}, 1)
    \/ ScanToken
    \/ CollectMetadata
    \/ NormalizeSQL
    \/ Return

SpecCTE == Init /\ [][CTENext]_vars

CteName == <<"c", "t", "e">>

\* the name follows an indicator of tables somewhere in h
Referenced(h, name) ==
    \E i \in 1..Len(h) :
        /\ IsName(h[i])
        /\ h[i].ident = name
        /\ PrevValue(h, i) # 0
        /\ h[PrevValue(h, i)].IsTableIndicator

\* C8: with collect-tables on, for WITH cte AS ( ... ) ... the bound name is
\* in the CTE set from its binding on and is never in tables, whether or
\* not the rest of the statement refers to it; for the scenario statement
\* the returned tables are exactly [person].
CTEExcluded ==
    /\ (pc \in {"scan", "collect", "normalize", "return", "done"}
        /\ stack = <<>> /\ Len(Collected) >= 3) =>
          /\ CteName \in ctes.names
          /\ \A k \in 1..Len(heap[statementMetadata].Tables) :
                heap[statementMetadata].Tables[k] # CteName
    /\ pc = "done" =>
          /\ \A k \in 1..Len(results[1].returned.Tables) :
                results[1].returned.Tables[k] # CteName
          /\ results[1].input = CTEExample =>
                results[1].returned.Tables = <<<<"p", "e", "r", "s", "o", "n">>>>

-----------------------------------------------------------------------------
(* Normalize on lists of placeholders in brackets: an optional a IN, the   *)
(* opening bracket, placeholders separated by commas with or without       *)
(* spaces around them, the closing bracket.                                *)

\* the longest run of placeholders
MaxRun == 3

Gaps == {<<>>, <<" ">>}

\* the runs of k + 1 placeholders
RECURSIVE Runs(_)
Runs(k) ==
    IF k = 0 THEN {<<"?">>}
    ELSE {r \o g1 \o <<",">> \o g2 \o <<"?">> :
             r \in Runs(k - 1), g1 \in Gaps, g2 \in Gaps}

GroupPrefix == <<"a", " ", "I", "N", " ">>

Brackets == {<<"(", ")">>, <<"[", "]">>}

GroupInput(pre, b, g1, r, g2) == pre \o <<b[1]>> \o g1 \o r \o g2 \o <<b[2]>>

GroupInputs ==
    {GroupInput(pre, b, g1, r, g2) :
        pre \in {<<>>, GroupPrefix}, b \in Brackets, g1 \in Gaps,
        r \in UNION {Runs(k) : k \in 0..(MaxRun - 1)}, g2 \in Gaps}

GroupConfigs ==
    {ZeroConfig,
     Config(TRUE, TRUE, TRUE, TRUE, FALSE, FALSE, FALSE, FALSE, FALSE)}

GroupNext ==
    \/ Call(GroupInputs, GroupConfigs, {DBMSGeneric, DBMSSQLServer}, 1)
    \/ ScanToken
    \/ CollectMetadata
    \/ NormalizeSQL
    \/ Return

SpecGroup == Init /\ [][GroupNext]_vars

\* the statement starts with a IN
HasPrefix(input) ==
    /\ Len(input) >= Len(GroupPrefix)
    /\ SubSeq(input, 1, Len(GroupPrefix)) = GroupPrefix

\* the opening bracket of the statement
OpenOf(input) ==
    IF HasPrefix(input) THEN input[Len(GroupPrefix) + 1] ELSE input[1]

\* the one placeholder between the brackets, after a IN if the statement has it
Grouped(input) ==
    (IF HasPrefix(input) THEN GroupPrefix ELSE <<>>)
    \o <<OpenOf(input), " ", "?", " ", input[Len(input)]>>

\* the brackets are tokens of their own: in SQL Server [ ... ] is one
\* quoted identifier
BracketsArePunctuation ==
    \E i \in 1..Len(hist) :
        /\ hist[i].Type = PUNCTUATION
        /\ hist[i].Value = <<OpenOf(lexer.src)>>

\* C9: a run of one or more placeholders separated by commas, directly
\* after ( or [ and closed by ) or ], is written as exactly one
\* placeholder, whatever the length of the run and the spaces in it:
\* the normalized text is ( ? ) or [ ? ], after the unchanged prefix.
PlaceholdersGrouped ==
    (pc = "done" /\ BracketsArePunctuation) =>
        results[1].normalizedSQL = Grouped(results[1].input)

\* C9 happens: ( ?, ?, ? ) was normalized to ( ? )
PlaceholdersGroupedWitness ==
    /\ pc = "done"
    /\ results[1].input = <<"(", " ", "?", ",", " ", "?", ",", " ", "?", " ", ")">>
    /\ results[1].normalizedSQL = <<"(", " ", "?", " ", ")">>
    /\ Cardinality({i \in 1..Len(hist) : hist[i].fate = "grouped"}) = 4

-----------------------------------------------------------------------------
(* Normalize on statements with aliases, with keep-sql-alias off and on.   *)

AliasWordA == <<"a", " ">>

AliasWordAs == <<"A", "S", " ">>

AliasWordB == <<"b", " ">>

AliasWordComma == <<",", " ">>

AliasWordOpen == <<"(", " ">>

AliasWordQuoted == <<"\"", "q", "\"", " ">>

AliasWordComment == <<"/", "*", "c", "*", "/", " ">>

AliasExample ==
    <<"S", "E", "L", "E", "C", "T", " ", "u", ".", "i", "d", " ", "a", "s",
      " ", "I", "D", ",", " ", "u", ".", "n", "a", "m", "e", " ", "a", "s",
      " ", "N", "a", "m", "e", " ", "F", "R", "O", "M", " ", "u", "s", "e",
      "r", "s", " ", "a", "s", " ", "u", " ", "W", "H", "E", "R", "E", " ",
      "u", ".", "i", "d", " ", "=", " ", "?">>

AliasExampleElided ==
    <<"S", "E", "L", "E", "C", "T", " ", "u", ".", "i", "d", ",", " ", "u",
      ".", "n", "a", "m", "e", " ", "F", "R", "O", "M", " ", "u", "s", "e",
      "r", "s", " ", "W", "H", "E", "R", "E", " ", "u", ".", "i", "d", " ",
      "=", " ", "?">>

AliasWords ==
    {AliasWordA, AliasWordAs, AliasWordB, AliasWordComma, AliasWordOpen,
     AliasWordQuoted, AliasWordComment}

\* the longest statement with aliases, in words
MaxAliasWords == 3

AliasInputs == Sentences(AliasWords, MaxAliasWords) \cup {AliasExample}

\* keep-sql-alias off and on, in a normalizer that collects nothing and in
\* one that collects everything
AliasConfigs ==
    {Config(c, c, c, c, ka, FALSE, FALSE, FALSE, FALSE) :
        c \in BOOLEAN, ka \in BOOLEAN}

AliasNext ==
    \/ Call(AliasInputs, AliasConfigs, {DBMSGeneric}, 1)
    \/ ScanToken
    \/ CollectMetadata
    \/ NormalizeSQL
    \/ Return

SpecAlias == Init /\ [][AliasNext]_vars

\* the first token after position i of h that is neither space nor comment,
\* 0 if there is none
NextValue(h, i) ==
    LET after == {j \in (i + 1)..Len(h) :
                     h[j].Type \notin {WS, COMMENT, MULTILINE_COMMENT}}
    IN  IF after = {} THEN 0
        ELSE CHOOSE j \in after : \A k \in after : j <= k

\* position i of h is an AS with an IDENT right after it, or that IDENT
IsAliasPair(h, i) ==
    \/ /\ h[i].Type = ALIAS_INDICATOR
       /\ NextValue(h, i) # 0
       /\ h[NextValue(h, i)].Type = IDENT
    \/ /\ h[i].Type = IDENT
       /\ PrevValue(h, i) # 0
       /\ h[PrevValue(h, i)].Type = ALIAS_INDICATOR

\* the text a token is written as: a quoted identifier without its quotes
\* unless they are kept, a command or keyword in upper case if asked for
TextOf(e, cfg) ==
    IF e.Type = QUOTED_IDENT /\ ~cfg.KeepIdentifierQuotation THEN e.ident
    ELSE IF cfg.UppercaseKeywords /\ e.Type \in {COMMAND, KEYWORD}
    THEN ToUpper(e.Value)
    ELSE e.Value

IsSuffix(s, t) ==
    /\ Len(s) <= Len(t)
    /\ SubSeq(t, Len(t) - Len(s) + 1, Len(t)) = s

\* C10: with keep-sql-alias off, every AS that has an IDENT right after it
\* (spaces and comments aside) and that IDENT are not written, and every
\* token that is neither an AS nor such an IDENT is written as usual; the
\* example statement gives the example text.  With keep-sql-alias on, the
\* AS and the alias are written too.
AliasElided ==
    pc = "done" =>
        /\ \A i \in 1..Len(hist) :
              IF hist[i].Type \in {WS, COMMENT, MULTILINE_COMMENT, EOF}
              THEN TRUE
              ELSE IF ~n.KeepSQLAlias /\ IsAliasPair(hist, i)
              THEN hist[i].wrote = <<>>
              ELSE IF ~n.KeepSQLAlias /\ hist[i].Type = ALIAS_INDICATOR
              THEN TRUE
              ELSE IsSuffix(TextOf(hist[i], n), hist[i].wrote)
        /\ (~n.KeepSQLAlias /\ results[1].input = AliasExample) =>
              results[1].normalizedSQL = AliasExampleElided
        /\ (n.KeepSQLAlias /\ results[1].input = AliasExample) =>
              results[1].normalizedSQL = AliasExample

-----------------------------------------------------------------------------
(* The space Normalize writes between tokens.                              *)

WSWordA == <<"a", " ">>

WSWordSpace == <<" ">>

WSWordString == <<"'", "b", " ", " ", "c", "'", " ">>

WSWordQuoted == <<"\"", "q", " ", "\"", " ">>

WSWordComma == <<",", " ">>

WSWordOpen == <<"(", " ">>

WSWordClose == <<")", " ">>

WSWordSemicolon == <<";">>

WSWords ==
    {WSWordA, WSWordSpace, WSWordString, WSWordQuoted, WSWordComma, WSWordOpen,
     WSWordClose, WSWordSemicolon}

\* the longest statement, in words
MaxWSWords == 3

\* a string that is not closed and ends with a vertical tab
WSExampleTab == <<"'", "a", VT>>

\* a quoted identifier with nothing between its quotes, between two names
WSExampleEmpty == <<"a", " ", "\"", "\"", " ", "b">>

WSInputs == Sentences(WSWords, MaxWSWords) \cup {WSExampleTab, WSExampleEmpty}

\* every option off; no space inside parentheses and the semicolon kept;
\* tables collected and quotation kept
WSConfigs ==
    {ZeroConfig,
     Config(FALSE, FALSE, FALSE, FALSE, FALSE, FALSE, TRUE, TRUE, FALSE),
     Config(TRUE, FALSE, FALSE, FALSE, FALSE, FALSE, FALSE, FALSE, TRUE)}

WSNext ==
    \/ Call(WSInputs, WSConfigs, {DBMSGeneric}, 1)
    \/ ScanToken
    \/ CollectMetadata
    \/ NormalizeSQL
    \/ Return

SpecWS == Init /\ [][WSNext]_vars

\* s has two spaces in a row
HasSpaceRun(s) == \E i \in 1..(Len(s) - 1) : s[i] = " " /\ s[i + 1] = " "

\* s starts or ends with white space
HasOuterSpace(s) ==
    s # <<>> /\ (s[1] \in TrimSpaceSet \/ s[Len(s)] \in TrimSpaceSet)

HasSpace(s) == \E i \in 1..Len(s) : s[i] \in TrimSpaceSet

\* what was written before the text of the token at position i
Separator(h, i, cfg) ==
    Slice(h[i].wrote, 0, Len(h[i].wrote) - Len(TextOf(h[i], cfg)))

\* C11: the text Normalize returns neither starts nor ends with white
\* space, and it has no two spaces in a row between its tokens: a run of
\* two spaces is inside the text of a written token (a string, a quoted
\* identifier) that has white space of its own, which the write rule
\* copies.
WhitespaceBetweenTokens ==
    pc = "done" =>
        /\ ~HasOuterSpace(results[1].normalizedSQL)
        /\ HasSpaceRun(results[1].normalizedSQL) =>
              \E i \in 1..Len(hist) :
                  hist[i].fate = "written" /\ HasSpace(TextOf(hist[i], n))

-----------------------------------------------------------------------------
(* Normalize called again on the text it returned.                         *)

IdemWordA == <<"a", " ">>

IdemWordAs == <<"A", "S", " ">>

IdemWordSemicolon == <<";">>

IdemWordOpen == <<"(", " ">>

IdemWordClose == <<")", " ">>

IdemWordComma == <<",", " ">>

IdemWordString == <<"'", "b", "'", " ">>

IdemWords ==
    {IdemWordA, IdemWordAs, IdemWordSemicolon, IdemWordOpen, IdemWordClose,
     IdemWordComma, IdemWordString}

\* the longest statement, in words
MaxIdemWords == 3

\* two parenthesized expressions and a name
IdemParens == <<"(", "a", ")", " ", "(", "b", ")", " ", "c">>

IdemInputs == Sentences(IdemWords, MaxIdemWords) \cup {IdemParens}

\* no collect option is on; aliases dropped or kept
IdemConfigs ==
    {ZeroConfig,
     Config(FALSE, FALSE, FALSE, FALSE, TRUE, FALSE, FALSE, TRUE, FALSE)}

\* the caller's first statement is any of IdemInputs, its second the text
\* the first call returned
IdemCallInputs ==
    IF results = <<>> THEN IdemInputs ELSE {results[1].normalizedSQL}

\* the second call is made on the same Normalizer
IdemCallConfigs ==
    IF results = <<>> THEN IdemConfigs ELSE {results[1].config}

IdemNext ==
    \/ Call(IdemCallInputs, IdemCallConfigs, {DBMSGeneric}, 2)
    \/ ScanToken
    \/ CollectMetadata
    \/ NormalizeSQL
    \/ Return

SpecIdem == Init /\ [][IdemNext]_vars

\* C12: with every collect option off, Normalize applied to the text
\* Normalize returned, under the same configuration, returns that text.
Idempotent ==
    Len(results) = 2 => results[2].normalizedSQL = results[1].normalizedSQL

-----------------------------------------------------------------------------
(* One statement normalized with the trailing semicolon dropped and kept.  *)

SemiWordA == <<"a", " ">>

SemiWordSemicolon == <<";">>

SemiWordSpace == <<" ">>

SemiWordComment == <<"/", "*", "c", "*", "/", " ">>

SemiWordOpen == <<"(", " ">>

\* a string literal that is not terminated
SemiWordString == <<"'", "b", ";">>

SemiWords ==
    {SemiWordA, SemiWordSemicolon, SemiWordSpace, SemiWordComment,
     SemiWordOpen, SemiWordString}

\* the longest statement, in words
MaxSemiWords == 3

SemiInputs == Sentences(SemiWords, MaxSemiWords)

\* keep-trailing-semicolon off, in a normalizer that collects nothing and
\* in one that collects comments
SemiConfigs ==
    {ZeroConfig,
     Config(FALSE, FALSE, TRUE, FALSE, FALSE, FALSE, FALSE, FALSE, FALSE)}

\* the caller normalizes a statement with the option off and then the same
\* statement with the option on
SemiCallInputs == IF results = <<>> THEN SemiInputs ELSE {results[1].input}

SemiCallConfigs ==
    IF results = <<>> THEN SemiConfigs
    ELSE {[results[1].config EXCEPT !.KeepTrailingSemicolon = TRUE]}

SemiNext ==
    \/ Call(SemiCallInputs, SemiCallConfigs, {DBMSGeneric}, 2)
    \/ ScanToken
    \/ CollectMetadata
    \/ NormalizeSQL
    \/ Return

SpecSemi == Init /\ [][SemiNext]_vars

\* the statement's last token that is neither space nor comment is the
\* punctuation ;
EndsWithSemicolon(h) ==
    /\ PrevValue(h, Len(h)) # 0
    /\ h[PrevValue(h, Len(h))].Type = PUNCTUATION
    /\ h[PrevValue(h, Len(h))].Value = <<";">>

\* C13: the text returned with keep-trailing-semicolon off is the text
\* returned with the option on without its last character, a ;, when the
\* statement's last token (spaces and comments aside) is the punctuation ;
\* and is the same text otherwise.
TrailingSemicolon ==
    (Len(results) = 2 /\ pc = "done") =>
        LET off == results[1].normalizedSQL
            on == results[2].normalizedSQL
        IN  IF EndsWithSemicolon(hist)
            THEN /\ on # <<>>
                 /\ on[Len(on)] = ";"
                 /\ off = SubSeq(on, 1, Len(on) - 1)
            ELSE off = on

-----------------------------------------------------------------------------
(* The letter case tokens are written in.                                  *)

CaseWordSelect == <<"s", "e", "l", "e", "c", "t", " ">>

CaseWordFrom == <<"F", "r", "o", "m", " ">>

CaseWordAs == <<"a", "s", " ">>

CaseWordName == <<"C", "d", " ">>

CaseWordNull == <<"n", "u", "l", "l", " ">>

CaseWordF == <<"f", "(", " ">>

CaseWords ==
    {CaseWordSelect, CaseWordFrom, CaseWordAs, CaseWordName, CaseWordNull,
     CaseWordF}

\* the longest statement, in words
MaxCaseWords == 3

CaseInputs == Sentences(CaseWords, MaxCaseWords)

\* uppercase-keywords on with aliases kept and dropped, and off
CaseConfigs ==
    {Config(FALSE, FALSE, FALSE, FALSE, TRUE, TRUE, FALSE, FALSE, FALSE),
     Config(FALSE, FALSE, FALSE, FALSE, FALSE, TRUE, FALSE, FALSE, FALSE),
     Config(FALSE, TRUE, FALSE, FALSE, TRUE, FALSE, FALSE, FALSE, FALSE)}

CaseNext ==
    \/ Call(CaseInputs, CaseConfigs, {DBMSGeneric}, 1)
    \/ ScanToken
    \/ CollectMetadata
    \/ NormalizeSQL
    \/ Return

SpecCase == Init /\ [][CaseNext]_vars

\* C14: with uppercase-keywords on a COMMAND or KEYWORD token is written in
\* upper case and a token of any other kind as it is in the statement; with
\* the option off every token is written as it is in the statement.
KeywordCasing ==
    \A i \in 1..Len(hist) :
        hist[i].fate = "written" =>
            IF n.UppercaseKeywords /\ hist[i].Type \in {COMMAND, KEYWORD}
            THEN IsSuffix(ToUpper(hist[i].Value), hist[i].wrote)
            ELSE IsSuffix(hist[i].Value, hist[i].wrote)

\* C14 happens: a lower-case command, a mixed-case keyword and a mixed-case
\* name were written with uppercase-keywords on
KeywordCasingWitness ==
    /\ pc = "done"
    /\ n.UppercaseKeywords
    /\ results[1].input = CaseWordSelect \o CaseWordFrom \o CaseWordName
    /\ results[1].normalizedSQL
          = <<"S", "E", "L", "E", "C", "T", " ", "F", "R", "O", "M", " ", "C", "d">>

\* C15: with uppercase-keywords on, an as that is written, as a token of
\* its own or before the token that follows it, is written AS.
AsUppercased ==
    n.UppercaseKeywords =>
        \A i \in 1..Len(hist) :
            /\ (hist[i].Type = ALIAS_INDICATOR /\ hist[i].fate = "written") =>
                  IsSuffix(<<"A", "S">>, hist[i].wrote)
            /\ hist[i].reemit =>
                  \E k \in 0..1 :
                      IsPrefix(SubSeq(hist[i].wrote, 1, k) \o <<"A", "S">>,
                               hist[i].wrote)

-----------------------------------------------------------------------------
(* The statements of TestNormalizerFormatting, sqllexer_test.go:955-1003:   *)
(* three families of statements, each with the one text the test wants.    *)

FormatColumns1 ==
    <<"S", "E", "L", "E", "C", "T", " ", "i", "d", ",", "n", "a", "m", "e",
      ",", " ", "a", "d", "d", "r", "e", "s", "s", " ", "F", "R", "O", "M",
      " ", "u", "s", "e", "r", "s", " ", "w", "h", "e", "r", "e", " ", "i",
      "d", " ", "=", " ", "?">>

FormatColumns2 ==
    <<"s", "e", "l", "e", "c", "t", " ", "i", "d", ",", " ", "n", "a", "m",
      "e", ",", " ", "a", "d", "d", "r", "e", "s", "s", " ", "F", "R", "O",
      "M", " ", "u", "s", "e", "r", "s", " ", "w", "h", "e", "r", "e", " ",
      "i", "d", " ", "=", " ", "?">>

FormatColumns3 ==
    <<"s", "e", "l", "e", "c", "t", " ", "i", "d", " ", "a", "s", " ", "I",
      "D", ",", " ", "n", "a", "m", "e", " ", "a", "s", " ", "N", "a", "m",
      "e", ",", " ", "a", "d", "d", "r", "e", "s", "s", " ", "F", "R", "O",
      "M", " ", "u", "s", "e", "r", "s", " ", "w", "h", "e", "r", "e", " ",
      "i", "d", " ", "=", " ", "?">>

FormatColumnsWant ==
    <<"S", "E", "L", "E", "C", "T", " ", "i", "d", ",", " ", "n", "a", "m",
      "e", ",", " ", "a", "d", "d", "r", "e", "s", "s", " ", "F", "R", "O",
      "M", " ", "u", "s", "e", "r", "s", " ", "W", "H", "E", "R", "E", " ",
      "i", "d", " ", "=", " ", "?">>

FormatColumns == {FormatColumns1, FormatColumns2, FormatColumns3}

FormatList1 ==
    <<"S", "E", "L", "E", "C", "T", " ", "i", "d", ",", "n", "a", "m", "e",
      ",", " ", "a", "d", "d", "r", "e", "s", "s", " ", "F", "R", "O", "M",
      " ", "u", "s", "e", "r", "s", " ", "w", "h", "e", "r", "e", " ", "i",
      "d", " ", "I", "N", " ", "(", "?", ",", " ", "?", ",", "?", ",", " ",
      "?", ")">>

FormatList2 ==
    <<"s", "e", "l", "e", "c", "t", " ", "i", "d", ",", " ", "n", "a", "m",
      "e", ",", " ", "a", "d", "d", "r", "e", "s", "s", " ", "F", "R", "O",
      "M", " ", "u", "s", "e", "r", "s", " ", "w", "h", "e", "r", "e", " ",
      "i", "d", " ", "I", "N", " ", "(", " ", "?", " ", ")">>

FormatList3 ==
    <<"s", "e", "l", "e", "c", "t", " ", "i", "d", ",", " ", "n", "a", "m",
      "e", ",", " ", "a", "d", "d", "r", "e", "s", "s", " ", "F", "R", "O",
      "M", " ", "u", "s", "e", "r", "s", " ", "w", "h", "e", "r", "e", " ",
      "i", "d", " ", "I", "N", " ", "(", "?", ",", "?", ",", "?", ")">>

FormatListWant ==
    <<"S", "E", "L", "E", "C", "T", " ", "i", "d", ",", " ", "n", "a", "m",
      "e", ",", " ", "a", "d", "d", "r", "e", "s", "s", " ", "F", "R", "O",
      "M", " ", "u", "s", "e", "r", "s", " ", "W", "H", "E", "R", "E", " ",
      "i", "d", " ", "I", "N", " ", "(", " ", "?", " ", ")">>

FormatList == {FormatList1, FormatList2, FormatList3}

FormatLike1 ==
    <<"S", "E", "L", "E", "C", "T", " ", "*", " ", "F", "R", "O", "M", " ",
      "d", "i", "s", "c", "o", "u", "n", "t", " ", "w", "h", "e", "r", "e",
      " ", "d", "e", "s", "c", "r", "i", "p", "t", "i", "o", "n", " ", "L",
      "I", "K", "E", " ", "?">>

FormatLike2 ==
    <<"s", "e", "l", "e", "c", "t", " ", "*", " ", "f", "r", "o", "m", " ",
      "d", "i", "s", "c", "o", "u", "n", "t", " ", "w", "h", "e", "r", "e",
      " ", "d", "e", "s", "c", "r", "i", "p", "t", "i", "o", "n", " ", "L",
      "I", "K", "E", " ", "?">>

FormatLike3 ==
    <<"s", "e", "l", "e", "c", "t", " ", "*", " ", "f", "r", "o", "m", " ",
      "d", "i", "s", "c", "o", "u", "n", "t", " ", "w", "h", "e", "r", "e",
      " ", "d", "e", "s", "c", "r", "i", "p", "t", "i", "o", "n", " ", "l",
      "i", "k", "e", " ", "?">>

FormatLikeWant ==
    <<"S", "E", "L", "E", "C", "T", " ", "*", " ", "F", "R", "O", "M", " ",
      "d", "i", "s", "c", "o", "u", "n", "t", " ", "W", "H", "E", "R", "E",
      " ", "d", "e", "s", "c", "r", "i", "p", "t", "i", "o", "n", " ", "L",
      "I", "K", "E", " ", "?">>

FormatLike == {FormatLike1, FormatLike2, FormatLike3}

FormatInputs == FormatColumns \cup FormatList \cup FormatLike

\* NewNormalizer(WithCollectComments(false)): every option off
FormatConfigs == {ZeroConfig}

FormatNext ==
    \/ Call(FormatInputs, FormatConfigs, {DBMSGeneric}, 1)
    \/ ScanToken
    \/ CollectMetadata
    \/ NormalizeSQL
    \/ Return

SpecFormat == Init /\ [][FormatNext]_vars

\* the text the statement's family is to be normalized to
FormatWant(input) ==
    IF input \in FormatColumns THEN FormatColumnsWant
    ELSE IF input \in FormatList THEN FormatListWant
    ELSE FormatLikeWant

\* C16: a normalizer built without the uppercase-keywords option returns
\* one text for all statements of a family, which differ in the letter
\* case of commands and keywords, the space around commas, aliases and the
\* number of placeholders in a list; in it commands and keywords are in
\* upper case.
CosmeticVariationErased ==
    pc = "done" => results[1].normalizedSQL = FormatWant(results[1].input)

-----------------------------------------------------------------------------
(* The space next to parentheses and brackets.                             *)

ParenWords ==
    {<<"(">>, <<")">>, <<"[">>, <<"]">>, <<"f", "(">>, <<"?">>, <<",">>,
     <<"a", " ">>}

\* the longest statement, in words
MaxParenWords == 3

ParenExample == <<"(", " ", "?", " ", ")">>

ParenExampleClose == <<"(", "?", ")">>

ParenInputs == Sentences(ParenWords, MaxParenWords) \cup {ParenExample}

\* remove-space-between-parentheses off and on
ParenConfigs ==
    {ZeroConfig,
     Config(FALSE, FALSE, FALSE, FALSE, FALSE, FALSE, TRUE, FALSE, FALSE)}

ParenNext ==
    \/ Call(ParenInputs, ParenConfigs, {DBMSGeneric}, 1)
    \/ ScanToken
    \/ CollectMetadata
    \/ NormalizeSQL
    \/ Return

SpecParen == Init /\ [][ParenNext]_vars

\* the token at position i of h comes right after (, [ or a FUNCTION name,
\* or is ) or ]
NextToParenthesis(h, i) ==
    \/ h[i].last.Type = FUNCTION
    \/ h[i].last.Value \in {<<"(">>, <<"[">>}
    \/ h[i].Value \in {<<")">>, <<"]">>}

-----------------------------------------------------------------------------
(* Statements that begin with a parenthesis.                               *)

HeadWords ==
    {<<"(">>, <<")">>, <<"a", " ">>, <<",">>, <<" ">>,
     <<"/", "*", "c", "*", "/">>}

\* the longest statement, in words
MaxHeadWords == 4

HeadExample == <<"(", "S", "E", "L", "E", "C", "T", " ", "1", ")">>

HeadExampleNested ==
    <<"(", "(", "S", "E", "L", "E", "C", "T", " ", "1", ")", ")">>

HeadInputs ==
    Sentences(HeadWords, MaxHeadWords) \cup {HeadExample, HeadExampleNested}

\* every option off; the semicolon and aliases kept, no space in parentheses
HeadConfigs ==
    {ZeroConfig,
     Config(FALSE, FALSE, FALSE, FALSE, TRUE, FALSE, TRUE, TRUE, FALSE)}

HeadNext ==
    \/ Call(HeadInputs, HeadConfigs, {DBMSGeneric}, 1)
    \/ ScanToken
    \/ CollectMetadata
    \/ NormalizeSQL
    \/ Return

SpecHead == Init /\ [][HeadNext]_vars

\* the tokens of h that are neither space, comment nor end of input
ValueTokens(h) ==
    LET isValue(e) == e.Type \notin {WS, COMMENT, MULTILINE_COMMENT, EOF}
    IN  SelectSeq(h, isValue)

\* how many parentheses are open after the first k of the tokens s
RECURSIVE Depth(_, _)
Depth(s, k) ==
    IF k = 0 THEN 0
    ELSE Depth(s, k - 1)
         + (IF s[k].Type = PUNCTUATION /\ s[k].Value = <<"(">> THEN 1
            ELSE IF s[k].Type = PUNCTUATION /\ s[k].Value = <<")">> THEN -1
            ELSE 0)

\* the tokens s are one balanced parenthesized expression
OneParenthesized(s) ==
    /\ Len(s) >= 2
    /\ s[1].Type = PUNCTUATION /\ s[1].Value = <<"(">>
    /\ \A k \in 1..(Len(s) - 1) : Depth(s, k) > 0
    /\ Depth(s, Len(s)) = 0

\* the texts of the tokens s, one after the other
RECURSIVE Texts(_)
Texts(s) == IF s = <<>> THEN <<>> ELSE Head(s).Value \o Texts(Tail(s))

\* s without its spaces
Unspaced(s) == LET notSpace(c) == c # " " IN SelectSeq(s, notSpace)

\* C18: a statement that is one balanced parenthesized expression, with
\* spaces and comments around it or not, is normalized to a text that
\* begins with ( and ends with ) and holds all its tokens in source order.
LeadingParenthesisKept ==
    (pc = "done" /\ OneParenthesized(ValueTokens(hist))) =>
        LET text == results[1].normalizedSQL IN
        /\ text # <<>>
        /\ text[1] = "("
        /\ text[Len(text)] = ")"
        /\ Unspaced(text) = Texts(ValueTokens(hist))

-----------------------------------------------------------------------------
(* Quoted identifiers in the text and in the metadata.                     *)

QuoteWordFrom == <<"F", "R", "O", "M", " ">>

QuoteWordProcedure == <<"P", "R", "O", "C", "E", "D", "U", "R", "E", " ">>

QuoteWordT == <<"\"", "t", "\"", " ">>

QuoteWordDotted == <<"\"", "a", "\"", ".", "\"", "b", "\"", " ">>

QuoteWordU == <<"u", " ">>

QuoteWords ==
    {QuoteWordFrom, QuoteWordProcedure, QuoteWordT, QuoteWordDotted, QuoteWordU}

\* the longest statement, in words
MaxQuoteWords == 3

\* the statements of TestNormalizer, sqllexer_test.go:728-747
QuoteUsers ==
    <<"S", "E", "L", "E", "C", "T", " ", "*", " ", "F", "R", "O", "M", " ",
      "\"", "u", "s", "e", "r", "s", "\"", " ", "W", "H", "E", "R", "E", " ",
      "i", "d", " ", "=", " ", "?">>

QuoteUsersTable == <<"\"", "u", "s", "e", "r", "s", "\"">>

QuotePublicUsers ==
    <<"S", "E", "L", "E", "C", "T", " ", "*", " ", "F", "R", "O", "M", " ",
      "\"", "p", "u", "b", "l", "i", "c", "\"", ".", "\"", "u", "s", "e",
      "r", "s", "\"", " ", "W", "H", "E", "R", "E", " ", "i", "d", " ", "=",
      " ", "?">>

QuotePublicUsersTable ==
    <<"\"", "p", "u", "b", "l", "i", "c", "\"", ".", "\"", "u", "s", "e",
      "r", "s", "\"">>

QuoteInputs ==
    Sentences(QuoteWords, MaxQuoteWords) \cup {QuoteUsers, QuotePublicUsers}

\* the normalizer of TestNormalizer, sqllexer_test.go:851-856; one that
\* collects everything and keeps the quotation; one that collects procedures
QuoteConfigs ==
    {Config(TRUE, TRUE, TRUE, FALSE, FALSE, FALSE, FALSE, FALSE, FALSE),
     Config(TRUE, TRUE, TRUE, TRUE, FALSE, FALSE, FALSE, FALSE, TRUE),
     Config(FALSE, FALSE, FALSE, TRUE, FALSE, FALSE, FALSE, FALSE, FALSE)}

QuoteNext ==
    \/ Call(QuoteInputs, QuoteConfigs, {DBMSGeneric}, 1)
    \/ ScanToken
    \/ CollectMetadata
    \/ NormalizeSQL
    \/ Return

SpecQuote == Init /\ [][QuoteNext]_vars

\* the value of a quoted identifier under the option
QuotedValue(e, cfg) == IF cfg.KeepIdentifierQuotation THEN e.Value ELSE e.ident

\* C19: the value of a QUOTED_IDENT token that is collected into tables or
\* procedures and the value that is written are both the unquoted text
\* when keep-identifier-quotation is off and both the token's text with
\* its quotes when the option is on.
QuotedIdentValue ==
    pc \in {"scan", "collect", "normalize", "return", "done"} =>
        \A i \in 1..Len(hist) :
            hist[i].Type = QUOTED_IDENT =>
                /\ hist[i].fate = "written" =>
                      IsSuffix(QuotedValue(hist[i], n), hist[i].wrote)
                /\ hist[i].collected =>
                      QuotedValue(hist[i], n)
                         \in Range(heap[statementMetadata].Tables)
                             \cup Range(heap[statementMetadata].Procedures)

\* C20: a normalizer that collects tables, commands and comments and does
\* not keep the quotation returns the two statements with a double-quoted
\* table name as they are, with the quoted name as the one table.
QuotedTableKept ==
    (pc = "done" /\ ~n.KeepIdentifierQuotation /\ n.CollectTables) =>
        /\ results[1].input = QuoteUsers =>
              /\ results[1].normalizedSQL = QuoteUsers
              /\ results[1].returned.Tables = <<QuoteUsersTable>>
        /\ results[1].input = QuotePublicUsers =>
              /\ results[1].normalizedSQL = QuotePublicUsers
              /\ results[1].returned.Tables = <<QuotePublicUsersTable>>

-----------------------------------------------------------------------------
(* Dollar-quoted functions: Normalize on a function body, then, by the     *)
(* same Normalizer with the same lexer options, on a statement that holds  *)
(* that body between two $func$ tags.                                      *)

FuncWordSelect == <<"s", "e", "l", "e", "c", "t", " ">>

FuncWordA == <<"a", " ">>

FuncWordAs == <<"a", "s", " ">>

FuncWordSemicolon == <<";">>

FuncWordQuoted == <<"\"", "q", "\"", " ">>

\* a bind parameter in Oracle, an operator and an identifier elsewhere
FuncWordColon == <<":", "a", " ">>

FuncWords ==
    {FuncWordSelect, FuncWordA, FuncWordAs, FuncWordSemicolon, FuncWordQuoted,
     FuncWordColon}

\* the longest function body, in words
MaxFuncWords == 2

\* a body with more to normalize
FuncExample ==
    <<" ", "s", "e", "l", "e", "c", "t", " ", " ", "a", " ", "a", "s", " ",
      "b", " ", "f", "r", "o", "m", " ", "t", ";", " ">>

FuncExampleNormalized ==
    <<"s", "e", "l", "e", "c", "t", " ", "a", " ", "f", "r", "o", "m", " ",
      "t">>

FuncBodies == Sentences(FuncWords, MaxFuncWords) \cup {FuncExample}

\* what stands before and after the dollar-quoted function: nothing, an AS
\* before it, parentheses around it
FuncWrappers ==
    {<< <<>>, <<>> >>,
     << <<"x", " ", "a", "s", " ">>, <<" ", "y">> >>,
     << <<"(">>, <<")">> >>}

FuncConfigs ==
    {ZeroConfig,
     Config(TRUE, TRUE, TRUE, TRUE, TRUE, TRUE, FALSE, TRUE, TRUE)}

FuncDialects == {DBMSPostgres, DBMSOracle}

\* the first call is made on a body, the second on a statement around it
FuncCallInputs ==
    IF results = <<>> THEN FuncBodies
    ELSE {w[1] \o FuncTag \o results[1].input \o FuncTag \o w[2] :
             w \in FuncWrappers}

FuncCallConfigs ==
    IF results = <<>> THEN FuncConfigs ELSE {results[1].config}

FuncCallDialects ==
    IF results = <<>> THEN FuncDialects ELSE {results[1].dbms}

FuncNext ==
    \/ Call(FuncCallInputs, FuncCallConfigs, FuncCallDialects, 2)
    \/ ScanToken
    \/ CollectMetadata
    \/ NormalizeSQL
    \/ Return

SpecFunc == Init /\ [][FuncNext]_vars

\* the text between the two $func$ tags of a DOLLAR_QUOTED_FUNCTION token
FuncBody(e) == Slice(e.Value, Len(FuncTag), Len(e.Value) - Len(FuncTag))

\* C21: every DOLLAR_QUOTED_FUNCTION token is written as $func$, followed
\* by what Normalize returns for the text between the token's two $func$
\* tags under the same configuration and the same lexer options, followed
\* by $func$.
FunctionRewritten ==
    (pc = "done" /\ Len(results) = 2) =>
        \A i \in 1..Len(hist) :
            (hist[i].Type = DOLLAR_QUOTED_FUNCTION
             /\ FuncBody(hist[i]) = results[1].input) =>
                /\ hist[i].fate = "written"
                /\ IsSuffix(FuncTag \o results[1].normalizedSQL \o FuncTag,
                            hist[i].wrote)

\* C21 happens: a function whose body Normalize changes was written with
\* the normalized body, after a re-emitted AS
FunctionRewrittenWitness ==
    /\ pc = "done"
    /\ Len(results) = 2
    /\ results[1].input = FuncExample
    /\ results[1].normalizedSQL = FuncExampleNormalized
    /\ \E i \in 1..Len(hist) :
          /\ hist[i].Type = DOLLAR_QUOTED_FUNCTION
          /\ hist[i].reemit
          /\ hist[i].wrote =
                <<" ", "a", "s", " ">> \o FuncTag \o FuncExampleNormalized \o FuncTag

-----------------------------------------------------------------------------
(* Reentrancy: statements in which dollar-quoted functions stand between   *)
(* tables, CTE bindings, placeholder runs and a leading parenthesis, so    *)
(* that the outer call has state of its own when the inner one starts.     *)

ReentWordFrom == <<"F", "R", "O", "M", " ", "t", " ">>

ReentWordWith == <<"W", "I", "T", "H", " ", "c", " ">>

ReentWordOpen == <<"(", " ">>

ReentWordRun == <<"(", " ", "?", ",", " ">>

\* a function whose body names a table and ends inside a placeholder run
ReentWordFuncTable ==
    <<"$", "f", "u", "n", "c", "$", "F", "R", "O", "M", " ", "v", " ", "(",
      " ", "?", "$", "f", "u", "n", "c", "$", " ">>

\* a function whose body binds the name t and starts with a parenthesis
ReentWordFuncCte ==
    <<"$", "f", "u", "n", "c", "$", "(", "W", "I", "T", "H", " ", "t", " ",
      "/", "*", "d", "*", "/", "$", "f", "u", "n", "c", "$", " ">>

ReentWords ==
    {ReentWordFrom, ReentWordWith, ReentWordOpen, ReentWordRun,
     ReentWordFuncTable, ReentWordFuncCte}

\* the longest statement, in words
MaxReentWords == 3

ReentInputs == Sentences(ReentWords, MaxReentWords)

ReentConfigs ==
    {Config(TRUE, TRUE, TRUE, TRUE, FALSE, FALSE, FALSE, FALSE, FALSE),
     ZeroConfig}

ReentNext ==
    \/ Call(ReentInputs, ReentConfigs, {DBMSPostgres}, 1)
    \/ ScanToken
    \/ CollectMetadata
    \/ NormalizeSQL
    \/ Return

SpecReent == Init /\ [][ReentNext]_vars

\* a step that starts a recursive Normalize call: the outer call's locals
\* are set aside as they are, the inner call starts from fresh ones and with
\* another, empty metadata record, and the outer record is not touched
ReentPush ==
    LET g == stack'[Len(stack')] IN
    Len(stack') = Len(stack) + 1 =>
        /\ g.statementMetadata = statementMetadata
        /\ g.ctes = ctes
        /\ g.groupable = groupable
        /\ g.lastValueToken = lastValueToken
        /\ statementMetadata' # statementMetadata
        /\ heap'[statementMetadata] = heap[statementMetadata]
        /\ Public(heap'[statementMetadata']) = Public(EmptyMetadata)
        /\ ctes'.names = {}
        /\ groupable' = FALSE
        /\ headState' = ZeroHeadState
        /\ lastValueToken' = NilLastValueToken

\* a step of the inner call: the outer calls' records and locals stay
ReentInner ==
    (stack # <<>> /\ Len(stack') = Len(stack)) =>
        /\ stack' = stack
        /\ \A k \in 1..Len(stack) :
              /\ heap'[stack[k].statementMetadata] = heap[stack[k].statementMetadata]
              /\ statementMetadata' # stack[k].statementMetadata
              /\ stack[k].statementMetadata \notin pool'

\* the step in which the inner call returns and the outer call writes the
\* function and finishes its loop body: the outer call goes on with what it
\* had set aside
ReentPop ==
    LET f == stack[Len(stack)] IN
    (Len(stack') = Len(stack) - 1 /\ pc' # "panic") =>
        /\ statementMetadata' = f.statementMetadata
        /\ heap'[f.statementMetadata] = heap[f.statementMetadata]
        /\ ctes' = f.ctes
        /\ groupable' = f.groupable
        /\ headState' = [f.headState EXCEPT !.expressionInParentheses =
                                               headState'.expressionInParentheses]
        /\ hist'[Len(hist')].last = f.lastValueToken
        /\ IsSuffix(appendWhitespace(n, String(variant, token'), f.lastValueToken, <<>>)
                       \o String(variant, token'),
                    hist'[Len(hist')].wrote)

\* what the outermost call returns holds what its own tokens give
ReentResult ==
    pc' = "done" => Deduped(results'[Len(results')].returned, hist', n')

\* C22: the recursive Normalize call for a dollar-quoted function body runs
\* between the outer call's steps on its own metadata record, CTE set,
\* groupable flag, head state and last-value summary; during it the outer
\* call's record is never written, when it returns the outer call has the
\* record, CTE set, groupable flag, head state and last-value summary it had
\* before, and what the outer call returns holds nothing found in the body.
Reentrant == [][ReentPush /\ ReentInner /\ ReentPop /\ ReentResult]_vars

\* C22 happens: the outer call had collected t and was in a placeholder run
\* when the function came, the body named v and left a run of its own open,
\* and the outer call, back at its loop, holds t alone and is still in its run
ReentrantWitness ==
    /\ pc = "scan"
    /\ stack = <<>>
    /\ hist # <<>>
    /\ hist[Len(hist)].Type = DOLLAR_QUOTED_FUNCTION
    /\ hist[Len(hist)].fate = "written"
    /\ FuncBody(hist[Len(hist)]) = Slice(ReentWordFuncTable, 6, 16)
    /\ groupable
    /\ heap[statementMetadata].Tables = << <<"t">> >>
    /\ lastValueToken.Type = DOLLAR_QUOTED_FUNCTION

-----------------------------------------------------------------------------
(* A Normalizer that collects nothing, called after one that collects.     *)

\* every collect option is off
CollectsNothing(cfg) ==
    ~cfg.CollectTables /\ ~cfg.CollectCommands /\ ~cfg.CollectComments
    /\ ~cfg.CollectProcedure

\* C23: with all four collect options off, the metadata Normalize returns
\* has empty tables, comments, commands and procedures and size 0, also
\* when its record was filled by an earlier call of a collecting Normalizer.
NothingCollected ==
    \A i \in 1..Len(results) :
        CollectsNothing(results[i].config) =>
            Public(results[i].returned) = Public(EmptyMetadata)

\* C23 happens: a call that collects nothing was handed the record an
\* earlier call had filled, on a statement with comments, a command and a
\* procedure in it, and returned it empty
NothingCollectedWitness ==
    /\ Len(results) = 2
    /\ variant = "pooled"
    /\ ~CollectsNothing(results[1].config)
    /\ results[1].returned.Tables # <<>>
    /\ results[2].statementMetadata = results[1].statementMetadata
    /\ CollectsNothing(results[2].config)
    /\ results[2].input = PoolMixed
    /\ Public(results[2].returned) = Public(EmptyMetadata)

-----------------------------------------------------------------------------
(* Obfuscate on a function body, then, by the same obfuscator, on a        *)
(* statement that holds that body between two $func$ tags.                 *)

ObfWordIdent == <<"a", "1", "b", "2", "2", " ">>

ObfWordNumber == <<"1", "2", " ">>

ObfWordString == <<"'", "s", "1", "'", " ">>

\* a string that is not closed
ObfWordIncomplete == <<"'", "x">>

ObfWordDollar == <<"$", "$", "d", "1", "$", "$", " ">>

ObfWordComment == <<"/", "*", "c", "1", "*", "/", " ">>

ObfWordQuoted == <<"\"", "q", "1", "\"", " ">>

ObfWordParameter == <<"$", "1", " ">>

ObfWords ==
    {ObfWordIdent, ObfWordNumber, ObfWordString, ObfWordIncomplete,
     ObfWordDollar, ObfWordComment, ObfWordQuoted, ObfWordParameter}

\* the longest function body, in words
MaxObfWords == 2

\* a comment that ends with a vertical tab
ObfExampleTab == <<"-", "-", VT>>

ObfBodies == Sentences(ObfWords, MaxObfWords) \cup {ObfExampleTab}

\* what stands before and after the dollar-quoted function
ObfWrappers ==
    {<< <<>>, <<>> >>,
     << <<" ", "7", " ">>, <<" ", "a", "1", " ">> >>}

ObfConfigs ==
    {ObfuscatorConfig(rd, dq) : rd \in BOOLEAN, dq \in BOOLEAN}

ObfCallInputs ==
    IF results = <<>> THEN ObfBodies
    ELSE {w[1] \o FuncTag \o results[1].input \o FuncTag \o w[2] :
             w \in ObfWrappers}

ObfCallConfigs ==
    IF results = <<>> THEN ObfConfigs ELSE {results[1].config}

ObfInit == Idle("plain")

ObfNext ==
    \/ ObfuscateCall(ObfCallInputs, ObfCallConfigs, 2)
    \/ Obfuscate

SpecObf == ObfInit /\ [][ObfNext]_vars

\* value with every maximal run of digits replaced by one ?
DigitRunsReplaced(value) ==
    Concat([i \in 1..Len(value) |->
               IF value[i] \notin DigitSet THEN <<value[i]>>
               ELSE IF i = 1 \/ value[i - 1] \notin DigitSet THEN <<"?">>
               ELSE <<>>])

\* what a token becomes; inner is what Obfuscate returned for the text
\* between the tags of a dollar-quoted function
Projection(e, cfg, inner) ==
    IF e.Type \in {NUMBER, STRING_T, INCOMPLETE_STRING, DOLLAR_QUOTED_STRING}
    THEN <<"?">>
    ELSE IF e.Type = DOLLAR_QUOTED_FUNCTION
    THEN IF cfg.DollarQuotedFunc THEN FuncTag \o inner \o FuncTag ELSE <<"?">>
    ELSE IF e.Type = IDENT /\ cfg.ReplaceDigits THEN DigitRunsReplaced(e.Value)
    ELSE e.Value

\* C24: Obfuscate returns the concatenation, in order, of what its tokens
\* become, without the white space around it: a NUMBER, STRING,
\* INCOMPLETE_STRING or DOLLAR_QUOTED_STRING becomes ?, a
\* DOLLAR_QUOTED_FUNCTION becomes ? with function-body obfuscation off and
\* $func$ + Obfuscate(body) + $func$ with it on, and every other token,
\* comments too, is copied as it is, but for the digit runs of an IDENT,
\* which become ? when replace-digits is on.
ObfuscateProjects ==
    (pc = "done" /\ results # <<>>) =>
        /\ \A i \in 1..Len(hist) :
              hist[i].Type = DOLLAR_QUOTED_FUNCTION =>
                 FuncBody(hist[i]) = results[1].input
        /\ results[Len(results)].obfuscatedSQL =
              TrimSpace(Concat([i \in 1..Len(hist) |->
                                   Projection(hist[i], o,
                                              results[1].obfuscatedSQL)]))

\* C24 happens: a statement with a number, a dollar-quoted function and an
\* identifier with digits was returned with the body obfuscated between the
\* tags, the number as ? and the identifier's digits as ?
ObfuscateProjectsWitness ==
    /\ pc = "done"
    /\ Len(results) = 2
    /\ o = ObfuscatorConfig(TRUE, TRUE)
    /\ results[1].input = ObfWordIdent \o ObfWordDollar
    /\ results[1].obfuscatedSQL = <<"a", "?", "b", "?", " ", "?">>
    /\ results[2].obfuscatedSQL =
          <<"?", " ">> \o FuncTag \o results[1].obfuscatedSQL \o FuncTag
          \o <<" ", "a", "?">>

-----------------------------------------------------------------------------
(* The last-value summary on statements with spaces, comments, quoted      *)
(* identifiers, aliases and a dollar-quoted function between the values.   *)

LastWordFrom == <<"f", "r", "o", "m", " ">>

\* an alias, which is not written when aliases are not kept
LastWordAs == <<"a", "s", " ", "a", " ">>

LastWordQuoted == <<"\"", "q", "\"", " ">>

LastWordComment == <<"/", "*", "c", "*", "/">>

LastWordLineComment == <<"-", "-", "c", "\n">>

LastWordFunc ==
    <<"$", "f", "u", "n", "c", "$", "b", " ", " ", ";", "$", "f", "u", "n",
      "c", "$">>

LastWords ==
    {LastWordFrom, LastWordAs, LastWordQuoted, LastWordComment,
     LastWordLineComment, LastWordFunc}

\* the longest statement, in words
MaxLastWords == 3

LastInputs == Sentences(LastWords, MaxLastWords)

LastConfigs ==
    {ZeroConfig,
     Config(TRUE, TRUE, TRUE, TRUE, FALSE, FALSE, FALSE, FALSE, FALSE),
     Config(TRUE, FALSE, TRUE, FALSE, TRUE, FALSE, FALSE, FALSE, TRUE)}

LastNext ==
    \/ Call(LastInputs, LastConfigs, {DBMSPostgres}, 1)
    \/ ScanToken
    \/ CollectMetadata
    \/ NormalizeSQL
    \/ Return

SpecLast == Init /\ [][LastNext]_vars

\* the output value of a token that has been through its turn of the loop:
\* a quoted identifier without its quotes unless they are kept, a
\* dollar-quoted function as it was written, any other token as it is
OutputValue(e, cfg) ==
    IF e.Type = QUOTED_IDENT /\ ~cfg.KeepIdentifierQuotation THEN e.ident
    ELSE IF e.Type = DOLLAR_QUOTED_FUNCTION
    THEN SubSeq(e.wrote,
                CHOOSE k \in 1..(Len(e.wrote) + 1) :
                   /\ IsPrefix(FuncTag, SubSeq(e.wrote, k, Len(e.wrote)))
                   /\ \A j \in 1..(k - 1) :
                         ~IsPrefix(FuncTag, SubSeq(e.wrote, j, Len(e.wrote))),
                Len(e.wrote))
    ELSE e.Value

\* the snapshot of the token at position i of h: its kind as the token
\* record holds it at the end of its turn, its output value, its flag
Snapshot(h, i, cfg) ==
    IF i = 0 THEN NilLastValueToken
    ELSE [Type |-> h[i].asType, Value |-> OutputValue(h[i], cfg),
          IsTableIndicator |-> h[i].IsTableIndicator]

\* C25: at every turn of the Normalize loop the last-value summary is absent
\* if no token before the current one is other than SPACE or a comment, and
\* else is the snapshot (kind, output value, table-indicator flag) of the
\* last such token; it is never taken from a SPACE, COMMENT or
\* MULTILINE_COMMENT token, and later Scan calls leave it as it is.
LastValueSnapshot ==
    pc \in {"scan", "collect", "normalize", "return", "done"} =>
        /\ \A i \in 1..Len(hist) :
              /\ hist[i].last = Snapshot(hist, PrevValue(hist, i), n)
              /\ hist[i].last.Type \notin {WS, COMMENT, MULTILINE_COMMENT}
        /\ pc = "scan" =>
              lastValueToken = Snapshot(hist, PrevValue(hist, Len(hist) + 1), n)

\* C25 happens: FROM was scanned with a space and a comment between it
\* and a quoted identifier, and the summary it was handled with is the
\* quoted identifier's, with the unquoted text as its value
LastValueSnapshotWitness ==
    /\ pc = "done"
    /\ Len(hist) >= 5
    /\ hist[1].Type = QUOTED_IDENT
    /\ hist[3].Type = MULTILINE_COMMENT
    /\ hist[4].Value = <<"f", "r", "o", "m">>
    /\ PrevValue(hist, 4) = 1
    /\ hist[4].last.Value = <<"q">>
    /\ hist[4].last.Type \in {QUOTED_IDENT, IDENT}

\* ---------------------------------------------------------------------
\* The summary of the AS of WITH name AS, Normalize's loop
\* (normalizer.go:157-167, part_000:204-216)
\* ---------------------------------------------------------------------

TextWith == <<"W", "I", "T", "H">>

TextAs == <<"A", "S">>

\* position k of h holds the AS of WITH <IDENT> AS, spaces and comments
\* between the three aside
IsWithNameAs(h, k) ==
    /\ h[k].Type = ALIAS_INDICATOR
    /\ ToUpper(h[k].Value) = TextAs
    /\ PrevValue(h, k) # 0
    /\ h[PrevValue(h, k)].Type = IDENT
    /\ PrevValue(h, PrevValue(h, k)) # 0
    /\ ToUpper(h[PrevValue(h, PrevValue(h, k))].Value) = TextWith

\* the tokens handled with the AS of WITH <IDENT> AS as their summary
AfterWithNameAs(h) ==
    {m \in 1..Len(h) : PrevValue(h, m) # 0 /\ IsWithNameAs(h, PrevValue(h, m))}

\* C26: the token that follows the AS of WITH <IDENT> AS (spaces and
\* comments aside) is handled with a last-value summary of kind
\* CTE_INDICATOR, not ALIAS_INDICATOR.
AsSummaryUpgraded ==
    \A m \in AfterWithNameAs(hist) : hist[m].last.Type = CTE_INDICATOR

-----------------------------------------------------------------------------
(* Normalize with table collection off and another collection on, on      *)
(* statements that bind names with WITH (part_000:193-209, 245-254).       *)

TrackWordWith == <<"W", "I", "T", "H", " ">>

TrackWordName == <<"c", " ">>

TrackWordQuotedName == <<"\"", "c", "\"", " ">>

TrackWordFrom == <<"F", "R", "O", "M", " ">>

TrackWordProcedure == <<"P", "R", "O", "C", "E", "D", "U", "R", "E", " ">>

TrackWordComment == <<"/", "*", "d", "*", "/", " ">>

TrackWordAs == <<"A", "S", " ">>

TrackWords ==
    {TrackWordWith, TrackWordName, TrackWordQuotedName, TrackWordFrom,
     TrackWordProcedure, TrackWordComment, TrackWordAs}

\* the most words of a statement
MaxTrackWords == 3

\* a name after the AS of WITH <IDENT> AS
TrackExample == TrackWordWith \o TrackWordName \o TrackWordAs \o TrackWordName

TrackInputs == Sentences(TrackWords, MaxTrackWords) \cup {TrackExample}

\* table collection off and one other collection on, or all three
TrackConfigs ==
    {Config(FALSE, TRUE, FALSE, FALSE, FALSE, FALSE, FALSE, FALSE, FALSE),
     Config(FALSE, FALSE, TRUE, FALSE, FALSE, FALSE, FALSE, FALSE, FALSE),
     Config(FALSE, FALSE, FALSE, TRUE, FALSE, FALSE, FALSE, FALSE, FALSE),
     Config(FALSE, TRUE, TRUE, TRUE, FALSE, FALSE, FALSE, FALSE, TRUE)}

TrackNext ==
    \/ Call(TrackInputs, TrackConfigs, {DBMSGeneric}, 1)
    \/ ScanToken
    \/ CollectMetadata
    \/ NormalizeSQL
    \/ Return

SpecTrack == Init /\ [][TrackNext]_vars

\* the names of h whose previous value token has kind CTE_INDICATOR, which
\* is the kind of the AS of WITH <IDENT> AS (section 4.4 of the
\* specification), and which have been through collectMetadata
BoundNames(h) ==
    {i \in 1..Len(h) :
        /\ IsName(h[i])
        /\ (h[i].last.Type = CTE_INDICATOR \/ i \in AfterWithNameAs(h))
        /\ (i < Len(h) \/ pc \in {"normalize", "return", "done"})}

\* C27: with collect-tables off and collect-procedures, collect-commands
\* or collect-comments on, an identifier whose previous value token has
\* kind CTE_INDICATOR is put in the CTE set without error, and it is
\* reported neither as a table nor as a procedure.
TrackedWithoutTables ==
    (~n.CollectTables
     /\ (n.CollectProcedure \/ n.CollectCommands \/ n.CollectComments)) =>
        /\ pc # "panic"
        /\ \A i \in BoundNames(hist) :
              /\ ~ctes.nil
              /\ hist[i].ident \in ctes.names
              /\ ~hist[i].collected

-----------------------------------------------------------------------------
(* The end of the leading parenthesized expression, normalizeSQL          *)
(* (normalizer.go:270-280, part_000:263-278, 322-332).                     *)

\* the first of the tokens s at which the parenthesis opened by s[1] is
\* closed, 0 if there is none
MatchingClose(s) ==
    LET closed == {k \in 1..Len(s) : Depth(s, k) = 0}
    IN  IF closed = {} THEN 0
        ELSE CHOOSE k \in closed : \A j \in closed : k <= j

\* C28: the capture of a leading parenthesized expression ends at the )
\* that matches the opening (, not at a ) nested inside it, and at the end
\* of input the expression is standalone exactly when that matching ) is
\* the last token that is neither space nor comment.
CaptureEndsAtMatching ==
    LET s == ValueTokens(hist) IN
    (/\ pc \in {"scan", "return", "done"}
     /\ stack = <<>>
     /\ s # <<>>
     /\ s[1].Type = PUNCTUATION /\ s[1].Value = <<"(">>) =>
        /\ headState.inLeadingParenthesesExpression = (MatchingClose(s) = 0)
        /\ (pc \in {"return", "done"} /\ MatchingClose(s) # 0) =>
              (headState.standaloneExpressionInParentheses
                  = (MatchingClose(s) = Len(s)))

-----------------------------------------------------------------------------
(* The AS written back before a token that is no alias name, normalizeSQL *)
(* (normalizer.go:245-280, part_000:297-332).                              *)

\* the buffer b after AS is written to it behind one space and the token t
\* after it, with the whitespace and the case t has anywhere else
AsThenToken(t, b) ==
    LET v == String(variant, t)
        withAs == writeToken(n, lastValueToken.Type, lastValueToken.Value,
                             Append(b, " "))
    IN  writeToken(n, t.Type, v, appendWhitespace(n, v, lastValueToken, withAs))

\* C29: with keep-sql-alias off, when the token after a dropped AS is no
\* IDENT (and neither another AS nor the end of input), the AS is written
\* once, one space after what the buffer holds, into the buffer the token
\* goes to and right before it, and the token is then written as it would
\* be anywhere else; the other buffer is left alone.
AsWrittenBack ==
    [][(/\ pc = "normalize"
        /\ pc' = "scan"
        /\ stack' = stack
        /\ ~n.KeepSQLAlias
        /\ token.Type \notin {WS, COMMENT, MULTILINE_COMMENT, IDENT,
                              ALIAS_INDICATOR}
        /\ lastValueToken # NilLastValueToken
        /\ lastValueToken.Type = ALIAS_INDICATOR
        /\ PrevValue(hist, PrevValue(hist, Len(hist))) # 0) =>
          IF headState.inLeadingParenthesesExpression
          THEN /\ headState'.expressionInParentheses
                     = AsThenToken(token', headState.expressionInParentheses)
               /\ normalizedSQLBuilder' = normalizedSQLBuilder
          ELSE /\ normalizedSQLBuilder'
                     = AsThenToken(token', normalizedSQLBuilder)
               /\ headState'.expressionInParentheses
                     = headState.expressionInParentheses]_vars

-----------------------------------------------------------------------------
(* Normalize on bracketed lists of placeholders and names: a run of        *)
(* placeholders that another token interrupts, isObfuscatedValueGroupable  *)
(* (normalizer.go:292-323, part_000:344-375).                              *)

\* the items of a list: a placeholder, a name
ListItems == {<<"?">>, <<"a">>}

\* the most items of a list
MaxListItems == 3

\* the lists of k + 1 items, separated by commas with or without a space
RECURSIVE ItemLists(_)
ItemLists(k) ==
    IF k = 0 THEN ListItems
    ELSE {l \o <<",">> \o g \o x :
             l \in ItemLists(k - 1), g \in Gaps, x \in ListItems}

ListInputs ==
    {pre \o <<b[1]>> \o l \o <<b[2]>> :
        pre \in {<<>>, GroupPrefix}, b \in Brackets,
        l \in UNION {ItemLists(k) : k \in 0..(MaxListItems - 1)}}

ListNext ==
    \/ Call(ListInputs, GroupConfigs, {DBMSGeneric, DBMSSQLServer}, 1)
    \/ ScanToken
    \/ CollectMetadata
    \/ NormalizeSQL
    \/ Return

SpecList == Init /\ [][ListNext]_vars

\* between the bracket that opens before position i of h and position i
\* there are only placeholders, commas, spaces and comments
RunUnbroken(h, i) ==
    LET opens == {j \in 1..(i - 1) : h[j].Value \in {<<"(">>, <<"[">>}}
        open == CHOOSE j \in opens : \A k \in opens : k <= j
    IN  /\ opens # {}
        /\ \A k \in (open + 1)..(i - 1) :
              \/ h[k].Type \in {WS, COMMENT, MULTILINE_COMMENT}
              \/ h[k].Value \in {NumberPlaceholder, StringPlaceholder, <<",">>}

\* C30: in groupable mode a comma is dropped only after a placeholder, and
\* a placeholder is dropped only while the run is unbroken: a placeholder
\* that comes after a token that is neither placeholder nor comma, in the
\* same brackets, is written, so ( ?, a, ? ) keeps its second placeholder.
BrokenRunKept ==
    \A i \in 1..Len(hist) :
        /\ (hist[i].Value = <<",">> /\ hist[i].fate = "grouped") =>
              /\ PrevValue(hist, i) # 0
              /\ hist[PrevValue(hist, i)].Value
                    \in {NumberPlaceholder, StringPlaceholder}
        /\ (hist[i].Value \in {NumberPlaceholder, StringPlaceholder}
            /\ hist[i].fate = "grouped") => RunUnbroken(hist, i)

-----------------------------------------------------------------------------
(* The comma written back before a token that ends a run of placeholders, *)
(* isObfuscatedValueGroupable (normalizer.go:314-320, part_000:366-372)    *)
(* and the write that follows it (part_000:316-332).                       *)

\* the buffer b after the token t is written to it with its whitespace
TokenWritten(t, b) ==
    LET v == String(variant, t)
    IN  writeToken(n, t.Type, v, appendWhitespace(n, v, lastValueToken, b))

\* C31: when a token that is no placeholder (and no closing bracket)
\* follows a comma, the comma is written before it, once and into the
\* buffer the token goes to, if the comma was suppressed in groupable
\* mode, and is not written again if it was not suppressed; the other
\* buffer is left alone.
CommaWrittenBack ==
    [][(/\ pc = "normalize"
        /\ pc' = "scan"
        /\ stack' = stack
        /\ token.Type \notin {WS, COMMENT, MULTILINE_COMMENT}
        /\ String(variant, token) \notin
              {NumberPlaceholder, StringPlaceholder, <<")">>, <<"]">>}
        /\ lastValueToken # NilLastValueToken
        /\ lastValueToken.Value = <<",">>) =>
          LET comma == hist[PrevValue(hist, Len(hist))]
              back(b) == IF comma.fate = "grouped"
                         THEN TokenWritten(token', b \o <<",">>)
                         ELSE TokenWritten(token', b)
          IN  IF headState.inLeadingParenthesesExpression
              THEN /\ headState'.expressionInParentheses
                         = back(headState.expressionInParentheses)
                   /\ normalizedSQLBuilder' = normalizedSQLBuilder
              ELSE /\ normalizedSQLBuilder' = back(normalizedSQLBuilder)
                   /\ headState'.expressionInParentheses
                         = headState.expressionInParentheses]_vars

-----------------------------------------------------------------------------
(* The lexer on inputs chosen for one scanner at a time.                   *)

\* a lexer client that has made a lexer for one of the inputs in one of the
\* dialects and has not called Scan yet
LexClient(inputs, dialects) ==
    /\ \E input \in inputs, dbms \in dialects :
          lexer = New(input, dbms)
    /\ variant = "plain"
    /\ n = ZeroConfig
    /\ token = NoToken
    /\ lastValueToken = NilLastValueToken
    /\ normalizedSQLBuilder = <<>>
    /\ groupable = FALSE
    /\ headState = ZeroHeadState
    /\ ctes = NilCtes
    /\ statementMetadata = 0
    /\ pc = "lexer"
    /\ stack = <<>>
    /\ heap = <<>>
    /\ pool = {}
    /\ results = <<>>
    /\ hist = <<>>
    /\ o = ZeroObfuscatorConfig
    /\ obfuscatedSQL = <<>>

(* Operator runs, scanOperator (sqllexer.go:463-512).                      *)

OpChars == {"=", "?", "@", "<", "a"}

\* the longest input of operators
MaxOpLen == 4

\* TestLexer, sqllexer_test.go:452-471, from its last name on
OpExample == <<"i", "d", " ", "=", "?">>

OpInputs == Strings(OpChars, MaxOpLen) \cup {OpExample}

OpInit == LexClient(OpInputs, Dialects)

SpecOp == OpInit /\ [][LexNext]_vars

\* the text s has a ? or @ right after a =
EqualsAbsorbs(s) ==
    \E k \in 1..(Len(s) - 1) : s[k] = "=" /\ s[k + 1] \in {"?", "@"}

\* C32: an operator run never holds a ? or @ right after a =: the run ends
\* with the = and the ? or @ begins the next token, so id =? gives
\* OPERATOR = and then OPERATOR ?.
OperatorSplit ==
    /\ \A i \in 1..Len(hist) :
          hist[i].Type \in {OPERATOR, JSON_OP} =>
              /\ ~EqualsAbsorbs(hist[i].Value)
              /\ (/\ hist[i].Value[Len(hist[i].Value)] = "="
                  /\ hist[i].End < Len(lexer.src)
                  /\ lexer.src[hist[i].End + 1] \in {"?", "@"}
                  /\ i < Len(hist)) =>
                    /\ hist[i + 1].Start = hist[i].End
                    /\ hist[i + 1].End > hist[i].End
    /\ (lexer.src = OpExample /\ Len(hist) >= 4) =>
          /\ hist[3].Type = OPERATOR /\ hist[3].Value = <<"=">>
          /\ hist[4].Type = OPERATOR /\ hist[4].Value = <<"?">>

\* C32 happens: <=? was scanned as the run <= and then the ?
OperatorSplitWitness ==
    /\ Len(hist) >= 2
    /\ Len(lexer.src) >= 3
    /\ SubSeq(lexer.src, 1, 3) = <<"<", "=", "?">>
    /\ hist[1].Type = OPERATOR
    /\ hist[1].Value = <<"<", "=">>
    /\ hist[2].Start = 2
    /\ hist[2].End > 2

(* Tokens that are never closed: scanString, scanDoubleQuotedIdentifier,  *)
(* scanMultiLineComment, scanDollarQuotedString (sqllexer.go:331-355,      *)
(* 417-451, 529-575).                                                      *)

ErrChars == {"'", "\"", "/", "*", "$", "a", NUL}

\* the longest input with an opening delimiter
MaxErrLen == 4

\* TestLexer, sqllexer_test.go:167-195, from its last operator on
ErrExample == <<"=", " ", "'", "j">>

ErrInputs == Strings(ErrChars, MaxErrLen) \cup {ErrExample}

ErrDialects == {DBMSGeneric, DBMSPostgres, DBMSSQLServer}

ErrInit == LexClient(ErrInputs, ErrDialects)

SpecErr == ErrInit /\ [][LexNext]_vars

\* the text w occurs in src at offset k (counted from 0)
OccursAt(src, w, k) ==
    k + Len(w) <= Len(src) /\ SubSeq(src, k + 1, k + Len(w)) = w

\* the text w occurs in src at some offset from k on
OccursFrom(src, w, k) == \E j \in k..Len(src) : OccursAt(src, w, j)

\* the opening tag of the dollar-quoted text at offset p of src, <<>> if
\* the tag has no second $
DollarTag(src, p) ==
    IF \E k \in (p + 2)..Len(src) : src[k] = "$"
    THEN SubSeq(src, p + 1,
                CHOOSE k \in (p + 2)..Len(src) :
                   /\ src[k] = "$"
                   /\ \A j \in (p + 2)..(k - 1) : src[j] # "$")
    ELSE <<>>

\* the kind of the token that opens at offset p of src and is never
\* closed, "" if what opens there is closed or is no such token
NeverClosed(src, p, dbms) ==
    LET ch == src[p + 1]
        nextCh == IF p + 2 <= Len(src) THEN src[p + 2] ELSE NUL
    IN  IF ch = "'"
        THEN IF OccursFrom(src, <<"'">>, p + 1) THEN "" ELSE INCOMPLETE_STRING
        ELSE IF ch = "\""
        THEN IF OccursFrom(src, <<"\"">>, p + 1) THEN "" ELSE ERROR
        ELSE IF ch = "/" /\ nextCh = "*"
        THEN IF OccursFrom(src, <<"*", "/">>, p + 2) THEN "" ELSE ERROR
        ELSE IF ch = "$" /\ ~isDigit(nextCh)
                /\ ~(dbms = DBMSSQLServer /\ isLetter(nextCh))
        THEN IF DollarTag(src, p) # <<>>
                /\ OccursFrom(src, DollarTag(src, p), p + Len(DollarTag(src, p)))
             THEN "" ELSE ERROR
        ELSE ""

\* C33: a single-quoted string that is never closed is one INCOMPLETE_STRING
\* token, and a quoted identifier, multi-line comment or dollar-quoted text
\* that is never closed is one ERROR token; the token runs from its
\* opening delimiter to the end of the input, the cursor is then the input
\* length and the next Scan returns EOF.
ErrorsAreTokens ==
    \A i \in 1..Len(hist) :
        (/\ hist[i].Start < Len(lexer.src)
         /\ NeverClosed(lexer.src, hist[i].Start, lexer.dbms) # "") =>
            /\ hist[i].Type = NeverClosed(lexer.src, hist[i].Start, lexer.dbms)
            /\ hist[i].End = Len(lexer.src)
            /\ i < Len(hist) =>
                  /\ hist[i + 1].cursorBefore = Len(lexer.src)
                  /\ hist[i + 1].Type = EOF

(* Keywords and the identifiers that begin like one, scanIdentifier        *)
(* (sqllexer.go:357-415).                                                  *)

KwChars == {"i", "N", "t", "o", " ", "(", "1", "_", NUL}

\* the longest input of keyword letters
MaxKwLen == 4

KwInputs == Strings(KwChars, MaxKwLen)

KwInit == LexClient(KwInputs, {DBMSGeneric})

SpecKw == KwInit /\ [][LexNext]_vars

\* the kinds a trie node gives a token
KeywordKinds == {k.tokenType : k \in keywords}

\* the length of the longest text at offset p of src whose characters all
\* satisfy the test given by the set of characters that end it
RECURSIVE RunLength(_, _, _)
RunLength(src, p, stops) ==
    IF p >= Len(src) \/ src[p + 1] \in stops THEN 0
    ELSE 1 + RunLength(src, p + 1, stops)

\* whitespace and punctuation among the characters of the inputs
KwStops == {ch \in KwChars : isWhitespace(ch) \/ isPunctuation(ch)}

\* the characters of the inputs that are neither letter, digit nor _
KwNotWord == {ch \in KwChars : ~isAlphaNumeric(ch)}

\* the text from offset p of src to the next whitespace, punctuation or
\* end of input
RunAt(src, p) == SubSeq(src, p + 1, p + RunLength(src, p, KwStops))

IsKeywordText(w) == \E k \in keywords : k.word = ToUpper(w)

KeywordFor(w) == CHOOSE k \in keywords : k.word = ToUpper(w)

\* C34: a token has a keyword's kind only when the text from its start to
\* the next whitespace, punctuation or end of input is exactly a keyword,
\* whatever the case of its letters; the token is then that text, with the
\* keyword's kind and table-indicator flag.  A text that begins with a
\* letter or _ and is no keyword (a keyword with more letters, digits or _
\* after it, a proper prefix of a keyword) is one IDENT or FUNCTION token
\* that holds at least its whole run of letters, digits and _.
KeywordExact ==
    \A i \in 1..Len(hist) :
        LET e == hist[i]
            run == RunAt(lexer.src, e.Start)
        IN  /\ e.Type \in KeywordKinds =>
                  /\ IsKeywordText(run)
                  /\ e.Value = run
                  /\ e.Type = KeywordFor(run).tokenType
                  /\ e.IsTableIndicator = KeywordFor(run).isTableIndicator
            /\ (/\ e.Start < Len(lexer.src)
                /\ isLetter(lexer.src[e.Start + 1])
                /\ ~IsKeywordText(run)) =>
                  /\ e.Type \in {IDENT, FUNCTION}
                  /\ e.End >= e.Start + RunLength(lexer.src, e.Start, KwNotWord)
            /\ (/\ e.Start < Len(lexer.src)
                /\ isLetter(lexer.src[e.Start + 1])
                /\ IsKeywordText(run)) => e.Type = KeywordFor(run).tokenType

(* Single-line comments, scanSingleLineComment (sqllexer.go:520-527) and   *)
(* its two callers in Scan (sqllexer.go:145-146, 181-188).                 *)

LineChars == {"-", "#", "\n", "a", NUL}

\* the longest input with a single-line comment
MaxLineLen == 4

LineInputs == Strings(LineChars, MaxLineLen)

LineDialects == {DBMSGeneric, DBMSMySQL, DBMSSQLServer}

LineInit == LexClient(LineInputs, LineDialects)

SpecLine == LineInit /\ [][LexNext]_vars

\* the length of the comment marker at offset p of src, 0 if there is none
MarkerAt(src, p, dbms) ==
    IF OccursAt(src, <<"-", "-">>, p) THEN 2
    ELSE IF dbms = DBMSMySQL /\ OccursAt(src, <<"#">>, p) THEN 1
    ELSE 0

\* C35: a single-line comment token, -- in every dialect and # in MySQL,
\* starts at its marker and ends right before the first newline after the
\* marker, or at the end of the input if there is none; it holds no
\* newline and nothing of the next line.
CommentEndsAtNewline ==
    \A i \in 1..Len(hist) :
        LET e == hist[i]
            m == MarkerAt(lexer.src, e.Start, lexer.dbms)
        IN  m > 0 =>
              /\ e.Type = COMMENT
              /\ e.End = e.Start + m
                         + RunLength(lexer.src, e.Start + m, {"\n"})
              /\ \A k \in 1..Len(e.Value) : e.Value[k] # "\n"

(* The dollar sign: positional parameters and dollar-quoted text, Scan     *)
(* (sqllexer.go:162-170), scanDollarQuotedString and                       *)
(* scanPositionalParameter (sqllexer.go:553-587).                          *)

DollarWords == {<<"$">>, FuncTag, <<"1">>, <<"a">>, <<NUL>>}

\* the most words of an input with dollar signs
MaxDollarWords == 4

DollarInputs == Sentences(DollarWords, MaxDollarWords)

DollarDialects == {DBMSPostgres, DBMSSQLServer}

DollarInit == LexClient(DollarInputs, DollarDialects)

SpecDollar == DollarInit /\ [][LexNext]_vars

\* the characters of the inputs that are no digit
DollarNotDigit == {"$", "f", "u", "n", "c", "a", NUL}

\* the first offset from k on at which w occurs in src
FirstFrom(src, w, k) ==
    CHOOSE j \in k..Len(src) :
       /\ OccursAt(src, w, j)
       /\ \A i \in k..(j - 1) : ~OccursAt(src, w, i)

\* C36: a token that starts with $ is, if a digit follows, the
\* POSITIONAL_PARAMETER made of the $ and all the digits after it;
\* otherwise, unless the dialect is SQL Server and a letter follows, it
\* runs from its opening tag $...$ through the first later occurrence of
\* that tag and is a DOLLAR_QUOTED_FUNCTION if the tag is $func$ and a
\* DOLLAR_QUOTED_STRING for any other tag, $$ included; if the tag does
\* not occur again the token is ERROR.
DollarDispatch ==
    \A i \in 1..Len(hist) :
        LET e == hist[i]
            src == lexer.src
            nextCh == IF e.Start + 2 <= Len(src) THEN src[e.Start + 2] ELSE NUL
            tag == DollarTag(src, e.Start)
        IN  (e.Start < Len(src) /\ src[e.Start + 1] = "$") =>
              IF isDigit(nextCh)
              THEN /\ e.Type = POSITIONAL_PARAMETER
                   /\ e.End = e.Start + 1
                              + RunLength(src, e.Start + 1, DollarNotDigit)
              ELSE IF lexer.dbms = DBMSSQLServer /\ isLetter(nextCh)
              THEN e.Type \notin {POSITIONAL_PARAMETER, DOLLAR_QUOTED_STRING,
                                  DOLLAR_QUOTED_FUNCTION}
              ELSE IF tag # <<>> /\ OccursFrom(src, tag, e.Start + Len(tag))
              THEN /\ e.End = FirstFrom(src, tag, e.Start + Len(tag)) + Len(tag)
                   /\ e.Type = IF tag = FuncTag THEN DOLLAR_QUOTED_FUNCTION
                               ELSE DOLLAR_QUOTED_STRING
              ELSE e.Type = ERROR

\* C36 happens: $func$$func$$1 was scanned as a DOLLAR_QUOTED_FUNCTION
\* and a POSITIONAL_PARAMETER
DollarDispatchWitness ==
    /\ lexer.src = FuncTag \o FuncTag \o <<"$", "1">>
    /\ Len(hist) >= 2
    /\ hist[1].Type = DOLLAR_QUOTED_FUNCTION
    /\ hist[1].End = 12
    /\ hist[2].Type = POSITIONAL_PARAMETER
    /\ hist[2].Value = <<"$", "1">>

-----------------------------------------------------------------------------
(* One statement normalized twice, by a normalizer that collects nothing   *)
(* and by one that differs from it in the collect options only             *)
(* (part_000:204-216, 235-244, 297-314).                                   *)

IndepWordSelect == <<"S", "E", "L", "E", "C", "T", " ">>

IndepWordA == <<"a", " ">>

IndepWordAs == <<"A", "S", " ">>

IndepWordQuoted == <<"\"", "b", "\"", " ">>

IndepWordFrom == <<"F", "R", "O", "M", " ">>

IndepWordComment == <<"/", "*", "c", "*", "/", " ">>

IndepWords ==
    {IndepWordSelect, IndepWordA, IndepWordAs, IndepWordQuoted, IndepWordFrom,
     IndepWordComment}

\* the most words of a statement
MaxIndepWords == 3

IndepExample ==
    <<"S", "E", "L", "E", "C", "T", " ", "a", " ", "A", "S", " ", "\"", "b", "\"">>

IndepInputs == Sentences(IndepWords, MaxIndepWords) \cup {IndepExample}

\* the options other than the collect options: all off, identifier
\* quotation kept, aliases kept
IndepBaseConfigs ==
    {ZeroConfig,
     Config(FALSE, FALSE, FALSE, FALSE, FALSE, FALSE, FALSE, FALSE, TRUE),
     Config(FALSE, FALSE, FALSE, FALSE, TRUE, TRUE, FALSE, FALSE, FALSE)}

\* cfg with its collect options replaced
WithCollect(cfg, ct, cc, cm, cp) ==
    [cfg EXCEPT !.CollectTables = ct, !.CollectCommands = cc,
                !.CollectComments = cm, !.CollectProcedure = cp]

\* the first call collects nothing; the second has the same statement,
\* dialect and other options and collects tables, or everything
IndepCallInputs ==
    IF results = <<>> THEN IndepInputs ELSE {results[1].input}

IndepCallConfigs ==
    IF results = <<>> THEN IndepBaseConfigs
    ELSE {WithCollect(results[1].config, TRUE, FALSE, FALSE, FALSE),
          WithCollect(results[1].config, TRUE, TRUE, TRUE, TRUE)}

IndepNext ==
    \/ Call(IndepCallInputs, IndepCallConfigs, {DBMSGeneric}, 2)
    \/ ScanToken
    \/ CollectMetadata
    \/ NormalizeSQL
    \/ Return

SpecIndep == Init /\ [][IndepNext]_vars

\* C37: two normalizers that differ only in their collect options return
\* the same normalized text for the same statement, SELECT a AS "b"
\* included.
TextIgnoresCollection ==
    Len(results) = 2 =>
        results[1].normalizedSQL = results[2].normalizedSQL

-----------------------------------------------------------------------------
(* The leading expression, followed by more of the statement.              *)

\* C38: no token is lost by buffering: the normalized text of a statement
\* with no alias, no placeholder and no semicolon is the texts of its
\* tokens that are neither space nor comment, in source order; the tokens
\* of a leading parenthesized expression come before those that follow it.
NoTokenLost ==
    pc = "done" =>
        Unspaced(results[1].normalizedSQL) = Texts(ValueTokens(hist))

-----------------------------------------------------------------------------
(* Where Scan returns EOF.                                                 *)

\* C39: Scan returns EOF only at the end of the input: the cursor is the
\* input length when the call is made and when it returns; no character
\* inside the input, a NUL included, ends the token stream before that.
EOFOnlyAtEnd ==
    \A i \in 1..Len(hist) :
        hist[i].Type = EOF =>
            /\ hist[i].cursorBefore = Len(lexer.src)
            /\ hist[i].Start = Len(lexer.src)
            /\ hist[i].End = Len(lexer.src)

-----------------------------------------------------------------------------
(* The two normalizers on the same call: a caller gives a statement to one *)
(* of them and then, with the same options and dialect, to the other, and  *)
(* recovers from a panic of the first.                                     *)

\* a placeholder as the first token, on which Normalize panics
BothExamplePanic == <<"?", " ", "a">>

\* the statements of C37 and one on which Normalize panics
BothInputs == IndepInputs \cup {BothExamplePanic}

\* nothing collected, tables only, everything but tables, everything; each
\* with identifier quotation dropped and kept
BothConfigs ==
    {WithCollect(cfg, ct, cc, cc, cc) :
        cfg \in {ZeroConfig,
                 Config(FALSE, FALSE, FALSE, FALSE, FALSE, FALSE, FALSE, FALSE,
                        TRUE)},
        ct \in BOOLEAN, cc \in BOOLEAN}

OtherVariant == IF variant = "plain" THEN "pooled" ELSE "plain"

\* the statement given by the caller: that of the outermost Normalize frame
OuterInput == IF stack = <<>> THEN lexer.src ELSE stack[1].lexer.src

\* what the caller has of a call that panicked
Failure ==
    [panicked |-> TRUE, input |-> OuterInput, dbms |-> lexer.dbms, config |-> n]

\* the caller gives the statement of the first call to the other normalizer
CallOther ==
    /\ \/ pc = "done" /\ Len(results) = 1
       \/ pc = "panic" /\ results = <<>>
    /\ variant' = OtherVariant
    /\ results' = IF pc = "panic" THEN <<Failure>> ELSE results
    /\ lexer' = New(OuterInput, lexer.dbms)
    /\ token' = NoToken
    /\ lastValueToken' = NilLastValueToken
    /\ normalizedSQLBuilder' = <<>>
    /\ groupable' = FALSE
    /\ headState' = ZeroHeadState
    /\ ctes' = IF OtherVariant = "plain" \/ n.CollectTables
               THEN MakeCtes ELSE NilCtes
    /\ hist' = <<>>
    /\ pc' = "scan"
    /\ \E b \in (IF OtherVariant = "plain" THEN {} ELSE pool)
                   \cup {Len(heap) + 1} :
          /\ statementMetadata' = b
          /\ GetMetadata(b)
    /\ stack' = <<>>
    /\ UNCHANGED <<n, o, obfuscatedSQL>>

BothNext ==
    \/ Call(BothInputs, BothConfigs, {DBMSGeneric}, 1)
    \/ CallOther
    \/ ScanToken
    \/ CollectMetadata
    \/ NormalizeSQL
    \/ Return

SpecBoth == Init /\ [][BothNext]_vars

\* what a caller sees of a call: that it panicked, or the text and the
\* metadata it returned
Observed(r) ==
    IF "panicked" \in DOMAIN r THEN [panicked |-> TRUE]
    ELSE [panicked |-> FALSE,
          normalizedSQL |-> r.normalizedSQL,
          Tables |-> r.returned.Tables,
          Comments |-> r.returned.Comments,
          Commands |-> r.returned.Commands,
          Procedures |-> r.returned.Procedures,
          Size |-> r.returned.Size]

\* C40: the two normalizers are observationally equivalent: on the same
\* statement, options and dialect they return the same text, tables,
\* comments, commands, procedures and size, and one panics only if the
\* other does.
VariantsAgree ==
    /\ Len(results) = 2 => Observed(results[1]) = Observed(results[2])
    /\ (pc = "panic" /\ Len(results) = 1) => Observed(results[1]).panicked

=============================================================================
